---- MODULE Spec2Model ----
(***************************************************************************)
(* Model of perun's complexity collector (C++ run-time library):           *)
(*   - Configuration (configuration.h / configuration.cpp): the lexer and  *)
(*     the recursive-descent parser of circ.conf,                          *)
(*   - Trace_context_wrapper and the __cyg_profile_func_enter/exit hooks   *)
(*     (profile.h / profile.cpp): filtering, sampling, buffering, output,  *)
(*   - the structure-size side channel (profile_api.h / profile_api.cpp).  *)
(* Texts are sequences of one-character strings; the lexer reads them      *)
(* character by character through the states of the FSM of Next_token.     *)
(***************************************************************************)
EXTENDS Integers, Sequences, FiniteSets, TLC

VARIABLES
    config_file,      \* contents of circ.conf on disk (a text), or Missing
    position,         \* static size_t position of Configuration::Next_token
    config,           \* the Configuration object last constructed (trace.config)
    ret_code,         \* value returned by the last Configuration::Parse (NotRun before)
    parse_log,        \* history: <<store, return value>> of every Parse of the process
    input,            \* history: the sections the configuration text was written from
    trace_ready,      \* static bool trace_ready
    instr_data,       \* Trace_context_wrapper::instr_data (the record vector)
    trace_log,        \* lines written to the trace log file, in order
    log_open,         \* trace_log.is_open()
    size_stack,       \* static std::vector<Size_stack_record> size_stack
    struct_size_map,  \* static std::unordered_map<void *, Struct_size_details>
    memory,           \* the size fields of the live structures, by address
    exit_code,        \* Running, or the status the process ended with
    pc,               \* life cycle of the static wrapper: "start", "running", "done"
    call_stack,       \* instrumented calls in progress (innermost last)
    now,              \* steady clock, microseconds
    accepted,         \* history: records handed to Create_instrumentation_record
    calls,            \* history: per function, number of calls entered so far
    last_event,       \* history: the last dispatcher event and what it did
    peak,             \* history: largest instr_data.size() seen inside any append
    flushes,          \* history: number of times Print_vector_to_file wrote the buffer
    twin              \* reference process run in lockstep on the same events

vars == <<config_file, position, config, ret_code, parse_log, input, trace_ready,
          instr_data, trace_log, log_open, size_stack, struct_size_map, memory,
          exit_code, pc, call_stack,
          now, accepted, calls, last_event, peak, flushes, twin>>

----------------------------------------------------------------------------
(* Generic helpers *)

Max(a, b) == IF a >= b THEN a ELSE b

RECURSIVE Concat(_)
Concat(ss) == IF ss = <<>> THEN <<>> ELSE Head(ss) \o Concat(Tail(ss))

Range(s) == {s[i] : i \in DOMAIN s}

----------------------------------------------------------------------------
(* Characters and literals of the configuration language *)

DigitChars == <<"0","1","2","3","4","5","6","7","8","9">>
HexChars == <<"0","1","2","3","4","5","6","7","8","9","a","b","c","d","e","f">>

isdigit(c) == c \in Range(DigitChars)
isspace(c) == c \in {" ", "\t", "\n", "\r", "\f"}

DigitVal(c) == (CHOOSE i \in DOMAIN HexChars : HexChars[i] = c) - 1

KW_data_filename == <<"\"","i","n","t","e","r","n","a","l","_","d","a","t","a","_","f","i","l","e","n","a","m","e","\"">>
KW_storage_size == <<"\"","i","n","t","e","r","n","a","l","_","s","t","o","r","a","g","e","_","s","i","z","e","\"">>
KW_direct_output == <<"\"","i","n","t","e","r","n","a","l","_","d","i","r","e","c","t","_","o","u","t","p","u","t","\"">>
KW_runtime_filter == <<"\"","r","u","n","t","i","m","e","_","f","i","l","t","e","r","\"">>
KW_sampling == <<"\"","s","a","m","p","l","i","n","g","\"">>
KW_func == <<"\"","f","u","n","c","\"">>
KW_sample == <<"\"","s","a","m","p","l","e","\"">>
Lit_CIRC == <<"C","I","R","C">>
Lit_true == <<"t","r","u","e">>
Lit_false == <<"f","a","l","s","e">>
Lit_trace_log == <<"t","r","a","c","e",".","l","o","g">>

\* Largest values of the numeric target types, as decimal digit strings
\* (unsigned long / unsigned long long: 2^64 - 1, int: 2^31 - 1).
ULONG_MAX_digits == <<"1","8","4","4","6","7","4","4","0","7","3","7","0","9","5","5","1","6","1","5">>
INT_MAX_digits == <<"2","1","4","7","4","8","3","6","4","7">>

----------------------------------------------------------------------------
(* Exit codes and constants of configuration.h *)

EXIT_ERR_PROFILE_FILE_OPEN == 1
EXIT_ERR_PROFILE_FILE_CLOSED == 2
EXIT_ERR_CONFIG_FILE_OPEN == 11
EXIT_ERR_CONFIG_FILE_SYNTAX == 12

sample_init == 0
default_instr_data_init_len == 20000

section_name == 0
section_storage == 1
section_output == 2
section_filter == 3
section_sampling == 4

Missing == "missing"   \* no circ.conf in the working directory
NotRun == -1           \* ret_code before any Parse
Running == -1          \* exit_code of a process that has not ended
Uncaught == -2         \* in place of a return value or exit status: an exception
                       \* (std::out_of_range) left Parse and ended the process

\* struct Config_details and its constructor with default arguments
Config_details(filter, sample, current_sample, ratio) ==
    [is_filtered |-> filter, is_sampled |-> sample,
     sample_current |-> current_sample, sample_ratio |-> ratio]

\* std::unordered_map<void *, Config_details> with no entry
EmptyMap == [k \in {} |-> 0]

\* Configuration::Configuration()
Configuration_ctor ==
    [func_config |-> EmptyMap,
     trace_file_name |-> Lit_trace_log,
     instr_data_init_len |-> default_instr_data_init_len,
     use_direct_file_output |-> FALSE,
     configuration_parsed |-> [i \in 0..4 |-> FALSE],
     file_contents |-> <<>>]

----------------------------------------------------------------------------
\* Body applied to the value of e: e is evaluated once, as a C++ local
\* variable is initialised once.
Let(e, Body(_)) == CHOOSE r \in {Body(v) : v \in {e}} : TRUE

----------------------------------------------------------------------------
(* Numeric conversions *)

RECURSIVE StripZeros(_)
StripZeros(ds) ==
    IF Len(ds) > 1 /\ Head(ds) = "0" THEN StripZeros(Tail(ds)) ELSE ds

RECURSIVE LexLeq(_, _)
\* a <= b for digit strings of equal length
LexLeq(a, b) ==
    IF a = <<>> THEN TRUE
    ELSE IF DigitVal(Head(a)) < DigitVal(Head(b)) THEN TRUE
    ELSE IF DigitVal(Head(a)) > DigitVal(Head(b)) THEN FALSE
    ELSE LexLeq(Tail(a), Tail(b))

\* the decimal number written by ds is representable in a type whose largest
\* value is written by limit (otherwise std::sto* throws std::out_of_range)
FitsIn(ds, limit) ==
    Let(StripZeros(ds), LAMBDA d :
        \/ Len(d) < Len(limit)
        \/ Len(d) = Len(limit) /\ LexLeq(d, limit))

RECURSIVE DecValue(_)
DecValue(digits) ==
    Let(digits, LAMBDA ds :
        IF ds = <<>> THEN 0
        ELSE 10 * DecValue(SubSeq(ds, 1, Len(ds) - 1)) + DigitVal(ds[Len(ds)]))

RECURSIVE ToHex(_)
\* operator<< with std::hex
ToHex(number) ==
    Let(number, LAMBDA n :
        IF n < 16 THEN <<HexChars[n + 1]>>
        ELSE Append(ToHex(n \div 16), HexChars[(n % 16) + 1]))

RECURSIVE HexValue(_)
\* sscanf %p on the hexadecimal digits left after the literal 0x
HexValue(digits) ==
    Let(digits, LAMBDA hs :
        IF hs = <<>> THEN 0
        ELSE 16 * HexValue(SubSeq(hs, 1, Len(hs) - 1)) + DigitVal(hs[Len(hs)]))

----------------------------------------------------------------------------
(* Lexer: Configuration::Next_token *)

ShortToken(c) ==
    CASE c = "=" -> "Op_equals"
      [] c = ":" -> "Op_colon"
      [] c = "[" -> "Br_square_begin"
      [] c = "]" -> "Br_square_end"
      [] c = "{" -> "Br_curly_begin"
      [] c = "}" -> "Br_curly_end"
      [] c = "," -> "Comma"
      [] OTHER -> "Default"

Token(type, value, pos, thrown) ==
    [type |-> type, value |-> value, position |-> pos, thrown |-> thrown]

\* the loop of Next_token stays in state FSM_token on reading character c
Stays(FSM_token, c) ==
    CASE FSM_token = "Init" -> isspace(c)
      [] FSM_token = "Text" -> c # "\""
      [] FSM_token = "Number" -> isdigit(c)
      [] FSM_token = "Magic" -> c \in {"C", "I", "R"}
      [] FSM_token = "Bool" -> c \in {"a", "l", "s", "e", "r", "u"}

\* The while loop of Next_token run in state FSM_token from index `from` on:
\* the index of the first character the state does not stay on, Len + 1 if
\* the text ends first (from itself if the cursor is already past the end).
Scan(file_contents, from, FSM_token) ==
    CHOOSE i \in from..Max(from, Len(file_contents) + 1) :
        /\ i > Len(file_contents) \/ ~Stays(FSM_token, file_contents[i])
        /\ \A j \in from..(i - 1) : Stays(FSM_token, file_contents[j])

\* out of the loop with a token begun: "Out of tokens", return false
Out_of_tokens(file_contents, type, first) ==
    Token(type, SubSeq(file_contents, first, Len(file_contents)),
          Len(file_contents), TRUE)

\* FSM_token_states::Text, entered at the quote at index first
FSM_Text(file_contents, first) ==
    Let(Scan(file_contents, first + 1, "Text"), LAMBDA last :
        IF last > Len(file_contents)
        THEN Out_of_tokens(file_contents, "Text_value", first)
        ELSE Token("Text_value", SubSeq(file_contents, first, last), last, FALSE))

\* FSM_token_states::Number: the character after the number is given back
FSM_Number(file_contents, first) ==
    Let(Scan(file_contents, first + 1, "Number"), LAMBDA stop :
        IF stop > Len(file_contents)
        THEN Out_of_tokens(file_contents, "Number_value", first)
        ELSE Token("Number_value", SubSeq(file_contents, first, stop - 1),
                   stop - 1, FALSE))

\* FSM_token_states::Magic
FSM_Magic(file_contents, first) ==
    Let(Scan(file_contents, first + 1, "Magic"), LAMBDA stop :
    Let(SubSeq(file_contents, first, stop - 1), LAMBDA value :
        IF stop > Len(file_contents)
        THEN Out_of_tokens(file_contents, "Magic", first)
        ELSE IF value = Lit_CIRC THEN Token("Magic", value, stop - 1, FALSE)
        ELSE Token("Magic", value, stop, TRUE)))

\* FSM_token_states::Bool
FSM_Bool(file_contents, first) ==
    Let(Scan(file_contents, first + 1, "Bool"), LAMBDA stop :
    Let(SubSeq(file_contents, first, stop - 1), LAMBDA value :
        IF stop > Len(file_contents)
        THEN Out_of_tokens(file_contents, "Bool_value", first)
        ELSE IF value = Lit_false \/ value = Lit_true
             THEN Token("Bool_value", value, stop - 1, FALSE)
        ELSE Token("Bool_value", value, stop, TRUE)))

\* Configuration::Next_token with the static cursor at pos (characters read)
Next_token(file_contents, pos) ==
    Let(Scan(file_contents, pos + 1, "Init"), LAMBDA first :
        IF first > Len(file_contents)
        THEN Token("File_end", <<>>, Max(pos, Len(file_contents)), FALSE)
        ELSE Let(file_contents[first], LAMBDA c :
             IF ShortToken(c) # "Default" THEN Token(ShortToken(c), <<c>>, first, FALSE)
             ELSE IF c = "\"" THEN FSM_Text(file_contents, first)
             ELSE IF c = "C" THEN FSM_Magic(file_contents, first)
             ELSE IF isdigit(c) THEN FSM_Number(file_contents, first)
             ELSE IF c \in {"f", "t"} THEN FSM_Bool(file_contents, first)
             ELSE Token("Default", <<>>, first, TRUE)))

----------------------------------------------------------------------------
(* Parser.  A parse state p is                                             *)
(*   [conf: the Configuration being filled, position: the static cursor,   *)
(*    thrown: "none" or the exception in flight, tok_type, tok_val].       *)
(* Every step returns its argument unchanged when an exception is already  *)
(* in flight: that is the stack unwinding to the handlers of Parse.        *)

Throw(p, what) == [p EXCEPT !.thrown = what]

\* Next_token called from the parser: moves the cursor, sets the token
Parser_next_token(state) ==
    Let(state, LAMBDA p :
        IF p.thrown # "none" THEN p
        ELSE Let(Next_token(p.conf.file_contents, p.position), LAMBDA t :
                 [p EXCEPT !.position = t.position,
                           !.tok_type = t.type,
                           !.tok_val = t.value,
                           !.thrown = IF t.thrown THEN "syntax" ELSE "none"]))

Test_token_type(state, expected_tok_type) ==
    Let(state, LAMBDA p :
        IF p.thrown # "none" THEN p
        ELSE IF p.tok_type # expected_tok_type THEN Throw(p, "syntax") ELSE p)

Test_next_token_type(p, expected_tok_type) ==
    Test_token_type(Parser_next_token(p), expected_tok_type)

Test_token_val(state, expected_tok_val) ==
    Let(state, LAMBDA p :
        IF p.thrown # "none" THEN p
        ELSE IF p.tok_val # expected_tok_val THEN Throw(p, "syntax") ELSE p)

Load_file(state, file_on_disk) ==
    Let(state, LAMBDA p : Let(file_on_disk, LAMBDA file :
        IF p.thrown # "none" THEN p
        ELSE IF file = Missing THEN Throw(p, "missing")
        ELSE [p EXCEPT !.conf.file_contents = file]))

Parse_init(p) ==
    Test_next_token_type(
        Test_next_token_type(
            Test_next_token_type(p, "Magic"), "Op_equals"), "Br_curly_begin")

Already_parsed_check(state, index) ==
    Let(state, LAMBDA p :
        IF p.thrown # "none" THEN p
        ELSE IF p.conf.configuration_parsed[index] = TRUE THEN Throw(p, "syntax")
        ELSE [p EXCEPT !.conf.configuration_parsed[index] = TRUE])

Parse_file_name(p) ==
    Let(Test_next_token_type(Test_next_token_type(p, "Op_colon"), "Text_value"),
        LAMBDA q :
        IF q.thrown # "none" THEN q
        ELSE [q EXCEPT !.conf.trace_file_name = SubSeq(q.tok_val, 2, Len(q.tok_val) - 1)])

Parse_storage_size(p) ==
    Let(Test_next_token_type(Test_next_token_type(p, "Op_colon"), "Number_value"),
        LAMBDA q :
        IF q.thrown # "none" THEN q
        ELSE IF ~FitsIn(q.tok_val, ULONG_MAX_digits) THEN Throw(q, "out_of_range")
        ELSE [q EXCEPT !.conf.instr_data_init_len = DecValue(q.tok_val)])

Parse_direct_output(p) ==
    Let(Test_next_token_type(Test_next_token_type(p, "Op_colon"), "Bool_value"),
        LAMBDA q :
        IF q.thrown # "none" THEN q
        ELSE [q EXCEPT !.conf.use_direct_file_output = (q.tok_val # Lit_false)])

\* Address_token_to_pointer on the token text: [thrown, addr]
Address_token_to_pointer(address) ==
    IF ~FitsIn(address, ULONG_MAX_digits)
    THEN [thrown |-> "out_of_range", addr |-> 0]      \* std::stoull
    ELSE Let(<<"0", "x">> \o ToHex(DecValue(address)), LAMBDA address_hex :
         Let(SubSeq(address_hex, 3, Len(address_hex)), LAMBDA digits :
             IF digits = <<>>
             THEN [thrown |-> "syntax", addr |-> 0]   \* sscanf(...) != 1
             ELSE [thrown |-> "none", addr |-> HexValue(digits)]))

\* variant: a filter entry leaves the entry its function already has
Filter_insert_if_absent(func_config, func_p) ==
    IF func_p \in DOMAIN func_config THEN func_config
    ELSE (func_p :> Config_details(TRUE, FALSE, sample_init, sample_init)) @@ func_config

\* line 270 of Parse_filter: the policy entry of one filtered address
Filter_insert(func_config, func_p) ==
    (func_p :> Config_details(TRUE, FALSE, sample_init, sample_init)) @@ func_config

\* one address of the runtime_filter list: lines 264-270 of Parse_filter
Parse_filter_entry(p) ==
    Let(Test_next_token_type(p, "Number_value"), LAMBDA a :
        IF a.thrown # "none" THEN a
        ELSE Let(Address_token_to_pointer(a.tok_val), LAMBDA fp :
                 IF fp.thrown # "none" THEN Throw(a, fp.thrown)
                 ELSE [a EXCEPT !.conf.func_config = Filter_insert(@, fp.addr)]))

RECURSIVE Parse_filter_loop(_)
Parse_filter_loop(state) ==
    Let(state, LAMBDA p :
        IF p.thrown # "none" THEN p
        ELSE Let(Parser_next_token(Parse_filter_entry(p)), LAMBDA d :
                 IF d.thrown # "none" THEN d
                 ELSE IF d.tok_type = "Br_square_end" THEN d
                 ELSE Parse_filter_loop(Test_token_type(d, "Comma"))))

Parse_filter(p) ==
    Parse_filter_loop(
        Test_next_token_type(Test_next_token_type(p, "Op_colon"), "Br_square_begin"))

\* variant: the counter of a new sampling entry starts at sample_init
Sample_insert_from_init(func_config, func_p, sample_val) ==
    IF func_p \notin DOMAIN func_config /\ sample_val > 1
    THEN (func_p :> Config_details(FALSE, TRUE, sample_init, sample_val)) @@ func_config
    ELSE func_config

\* variant: a sampling entry replaces the entry its function already has
Sample_insert_overwrite(func_config, func_p, sample_val) ==
    IF sample_val > 1
    THEN (func_p :> Config_details(FALSE, TRUE, sample_val - 1, sample_val)) @@ func_config
    ELSE func_config

\* lines 308-316 of Parse_sample: the policy entry of one sampling record
Sample_insert(func_config, func_p, sample_val) ==
    IF func_p \notin DOMAIN func_config /\ sample_val > 1
    THEN (func_p :> Config_details(FALSE, TRUE, sample_val - 1, sample_val)) @@ func_config
    ELSE func_config

\* { "func" : address, "sample" : number: lines 292-316 of Parse_sample
Parse_sample_entry(p) ==
    Let(Test_next_token_type(
            Test_next_token_type(
                Test_token_val(
                    Test_next_token_type(
                        Test_next_token_type(p, "Br_curly_begin"),
                        "Text_value"),
                    KW_func),
                "Op_colon"),
            "Number_value"), LAMBDA a4 :
    IF a4.thrown # "none" THEN a4
    ELSE Let(Address_token_to_pointer(a4.tok_val), LAMBDA fp :
    IF fp.thrown # "none" THEN Throw(a4, fp.thrown)
    ELSE Let(Test_next_token_type(
                 Test_next_token_type(
                     Test_token_val(
                         Test_next_token_type(
                             Test_next_token_type(a4, "Comma"),
                             "Text_value"),
                         KW_sample),
                     "Op_colon"),
                 "Number_value"), LAMBDA a9 :
    IF a9.thrown # "none" THEN a9
    ELSE IF ~FitsIn(a9.tok_val, INT_MAX_digits) THEN Throw(a9, "out_of_range")
    ELSE [a9 EXCEPT !.conf.func_config =
             Sample_insert(@, fp.addr, DecValue(a9.tok_val))])))

RECURSIVE Parse_sample_loop(_)
Parse_sample_loop(state) ==
    Let(state, LAMBDA p :
        IF p.thrown # "none" THEN p
        ELSE Let(Parser_next_token(
                     Test_next_token_type(Parse_sample_entry(p), "Br_curly_end")),
                 LAMBDA d :
                 IF d.thrown # "none" THEN d
                 ELSE IF d.tok_type = "Br_square_end" THEN d
                 ELSE Parse_sample_loop(Test_token_type(d, "Comma"))))

Parse_sample(p) ==
    Parse_sample_loop(
        Test_next_token_type(Test_next_token_type(p, "Op_colon"), "Br_square_begin"))

\* one section: lines 26-50 of Parse
Parse_section(p) ==
    Let(Test_next_token_type(p, "Text_value"), LAMBDA a :
    IF a.thrown # "none" THEN a
    ELSE CASE a.tok_val = KW_data_filename ->
                Parse_file_name(Already_parsed_check(a, section_name))
           [] a.tok_val = KW_storage_size ->
                Parse_storage_size(Already_parsed_check(a, section_storage))
           [] a.tok_val = KW_direct_output ->
                Parse_direct_output(Already_parsed_check(a, section_output))
           [] a.tok_val = KW_runtime_filter ->
                Parse_filter(Already_parsed_check(a, section_filter))
           [] a.tok_val = KW_sampling ->
                Parse_sample(Already_parsed_check(a, section_sampling))
           [] OTHER -> Throw(a, "syntax"))

RECURSIVE Parse_sections(_)
\* the while(1) loop of Parse
Parse_sections(state) ==
    Let(state, LAMBDA p :
        IF p.thrown # "none" THEN p
        ELSE Let(Parser_next_token(Parse_section(p)), LAMBDA c :
                 IF c.thrown # "none" THEN c
                 ELSE IF c.tok_type = "Br_curly_end" THEN c
                 ELSE Parse_sections(Test_token_type(c, "Comma"))))

\* variant: the handler of the syntax exception returns without func_config.clear()
Parse_keeping_table(conf, pos, file) ==
    Let(Test_next_token_type(
            Parse_sections(
                Parse_init(
                    Load_file([conf |-> conf, position |-> pos, thrown |-> "none",
                               tok_type |-> "Default", tok_val |-> <<>>], file))),
            "File_end"), LAMBDA p3 :
    CASE p3.thrown = "none" ->
              [conf |-> p3.conf, position |-> p3.position, ret |-> 0]
      [] p3.thrown = "missing" ->
              [conf |-> [p3.conf EXCEPT !.func_config = EmptyMap],
               position |-> p3.position, ret |-> EXIT_ERR_CONFIG_FILE_OPEN]
      [] p3.thrown = "syntax" ->
              [conf |-> p3.conf,
               position |-> p3.position, ret |-> EXIT_ERR_CONFIG_FILE_SYNTAX]
      [] OTHER ->
              [conf |-> p3.conf, position |-> p3.position, ret |-> Uncaught])

\* Configuration::Parse on the object conf, with the static cursor at pos and
\* the file on disk.  Result: [conf, position, ret].
Parse(conf, pos, file) ==
    Let(Test_next_token_type(
            Parse_sections(
                Parse_init(
                    Load_file([conf |-> conf, position |-> pos, thrown |-> "none",
                               tok_type |-> "Default", tok_val |-> <<>>], file))),
            "File_end"), LAMBDA p3 :
    CASE p3.thrown = "none" ->
              [conf |-> p3.conf, position |-> p3.position, ret |-> 0]
      [] p3.thrown = "missing" ->
              [conf |-> [p3.conf EXCEPT !.func_config = EmptyMap],
               position |-> p3.position, ret |-> EXIT_ERR_CONFIG_FILE_OPEN]
      [] p3.thrown = "syntax" ->
              [conf |-> [p3.conf EXCEPT !.func_config = EmptyMap],
               position |-> p3.position, ret |-> EXIT_ERR_CONFIG_FILE_SYNTAX]
      [] OTHER -> \* no handler: the exception leaves Parse
              [conf |-> p3.conf, position |-> p3.position, ret |-> Uncaught])

----------------------------------------------------------------------------
(* Bounds of the model *)

\* profile.h:38 sets 19998; scaled down so the cap is crossed
max_records == 3
\* instrumented calls entered in one run
MaxCalls == 4
\* depth of the instrumented call stack
MaxDepth == 2
\* last value of the clock
MaxTime == 1
\* using-size notifications in one run
MaxUsing == 2

Funcs == {1, 2}      \* addresses of the instrumented functions
Sizes == {1, 2}      \* structure sizes reported by the program
StructAddr == "list" \* the one profiled structure instance

\* addresses of structures: the profiled one and one that is never registered;
\* the address of the size field of a structure
Structs == {StructAddr, "tree"}
SizeField(struct_addr) == IF struct_addr = StructAddr THEN "list.size" ELSE "tree.size"

\* Address of the frame of the instrumented call at depth d: the stack grows
\* towards lower addresses.
FrameAddr(d) == 16 - d

----------------------------------------------------------------------------
(* Structure-size side channel: profile_api.cpp *)

Size_stack_record(frame, size) == [stack_frame |-> frame, actual_size |-> size]

\* Struct_size_details(bool is_injected, size_t size_value)
Struct_size_details(is_injected, size_value) ==
    [size_address |-> "nullptr", size_value |-> size_value, is_injected |-> is_injected]

\* Struct_size_details(bool is_injected, size_t *size_address)
Struct_size_details_address(is_injected, size_address) ==
    [size_address |-> size_address, size_value |-> 0, is_injected |-> is_injected]

\* A process state t is a record of the statics and of the members of the
\* static wrapper `trace`:
\*   config, position, instr_data, trace_log, log_open, trace_ready,
\*   size_stack, struct_size_map, exit_code,
\* and of three probes of the call in progress: did (what the hook did), peak
\* (largest instr_data.size() inside the call), flushed (buffer dumps at the cap).

_profapi_register_size_address(t, struct_addr, is_injected, struct_size_address) ==
    [t EXCEPT !.struct_size_map =
        (struct_addr :> Struct_size_details_address(is_injected, struct_size_address)) @@ @]

_profapi_register_size_value(t, struct_addr, is_injected, struct_size_value) ==
    [t EXCEPT !.struct_size_map =
        (struct_addr :> Struct_size_details(is_injected, struct_size_value)) @@ @]

_profapi_unregister_size(t, struct_addr) ==
    [t EXCEPT !.struct_size_map =
        [a \in (DOMAIN @) \ {struct_addr} |-> @[a]]]

\* exit_code of a process ended by a signal inside the call
Crashed == -3

\* What reading *size_address can do when size_address is null or points into
\* a destroyed structure: the behaviour is undefined, the process is ended by
\* a signal or some value is read.
UndefinedReads == {Crashed} \cup Sizes

\* mem is the memory of the program; undefined is what the read does when
\* size_address is not the address of a live size field
_profapi_using_size_address(t, struct_addr, frame1, frame0, mem, undefined) ==
    IF struct_addr \in DOMAIN t.struct_size_map
    THEN LET rec == t.struct_size_map[struct_addr]
             stack_frame == IF rec.is_injected THEN frame1 ELSE frame0
         IN IF rec.size_address \in DOMAIN mem
            THEN [t EXCEPT !.size_stack =
                        Append(@, Size_stack_record(stack_frame, mem[rec.size_address]))]
            ELSE IF undefined = Crashed
            THEN [t EXCEPT !.exit_code = Crashed]
            ELSE [t EXCEPT !.size_stack =
                        Append(@, Size_stack_record(stack_frame, undefined))]
    ELSE t

\* variant: struct_size_map[struct_addr] in place of find(), which creates the
\* entry of an address that has none
_profapi_using_size_value_subscript(t, struct_addr, size_value, frame1, frame0) ==
    LET rec == IF struct_addr \in DOMAIN t.struct_size_map
               THEN t.struct_size_map[struct_addr]
               ELSE [size_address |-> "nullptr", size_value |-> 0, is_injected |-> FALSE]
    IN [t EXCEPT !.struct_size_map =
                     (struct_addr :> [rec EXCEPT !.size_value = size_value]) @@ @,
                 !.size_stack = Append(@,
                     Size_stack_record(IF rec.is_injected THEN frame1 ELSE frame0,
                                       size_value))]

\* frame1 is __builtin_frame_address(1) and frame0 __builtin_frame_address(0)
\* inside the call
_profapi_using_size_value(t, struct_addr, size_value, frame1, frame0) ==
    IF struct_addr \in DOMAIN t.struct_size_map
    THEN LET rec == t.struct_size_map[struct_addr] IN
         [t EXCEPT !.struct_size_map[struct_addr].size_value = size_value,
                   !.size_stack = Append(@,
                        Size_stack_record(IF rec.is_injected THEN frame1 ELSE frame0,
                                          size_value))]
    ELSE t

\* variant: the size of the top record is returned without pop_back()
_profapi_get_size_record_no_pop(stack, stack_frame) ==
    IF stack # <<>> /\ stack_frame = stack[Len(stack)].stack_frame
    THEN [size |-> stack[Len(stack)].actual_size, size_stack |-> stack]
    ELSE [size |-> 0, size_stack |-> stack]

\* [size: the value returned, size_stack: the stack afterwards]
_profapi_get_size_record(stack, stack_frame) ==
    IF stack # <<>> /\ stack_frame = stack[Len(stack)].stack_frame
    THEN [size |-> stack[Len(stack)].actual_size,
          size_stack |-> SubSeq(stack, 1, Len(stack) - 1)]
    ELSE [size |-> 0, size_stack |-> stack]

\* variant: the record of the frame is left on the stack
_profapi_remove_size_record_keep(stack, stack_frame) == stack

_profapi_remove_size_record(stack, stack_frame) ==
    IF stack # <<>> /\ stack_frame = stack[Len(stack)].stack_frame
    THEN SubSeq(stack, 1, Len(stack) - 1)
    ELSE stack

\* variant: every record of the same or a lower frame is removed, wherever it lies
_profapi_clean_size_records_sweep(stack, stack_frame) ==
    SelectSeq(stack, LAMBDA r : stack_frame < r.stack_frame)

\* variant: the loop body runs once at most
_profapi_clean_size_records_once(stack, stack_frame) ==
    IF stack # <<>> /\ stack_frame >= stack[Len(stack)].stack_frame
    THEN SubSeq(stack, 1, Len(stack) - 1)
    ELSE stack

RECURSIVE _profapi_clean_size_records(_, _)
_profapi_clean_size_records(stack, stack_frame) ==
    IF stack # <<>> /\ stack_frame >= stack[Len(stack)].stack_frame
    THEN _profapi_clean_size_records(SubSeq(stack, 1, Len(stack) - 1), stack_frame)
    ELSE stack

----------------------------------------------------------------------------
(* Trace_context_wrapper: profile.cpp *)

\* struct Instrument_data
Instrument_data(action, function, clock, struct_size) ==
    [action |-> action, function_address |-> function, now |-> clock,
     struct_size |-> struct_size]

\* instr_data.clear(); config.func_config.clear(); exit(code);
Clear_and_exit(t, code) ==
    [t EXCEPT !.instr_data = <<>>,
              !.config.func_config = EmptyMap,
              !.exit_code = code]

\* variant: with the log closed the buffered records are dropped and the run goes on
Print_vector_to_file_silent(process) ==
    Let(process, LAMBDA t :
        IF t.log_open
        THEN [t EXCEPT !.trace_log = @ \o t.instr_data,
                       !.instr_data = <<>>,
                       !.flushed = @ + 1]
        ELSE [t EXCEPT !.instr_data = <<>>])

Print_vector_to_file(process) ==
    Let(process, LAMBDA t :
        IF t.log_open
        THEN [t EXCEPT !.trace_log = @ \o t.instr_data,
                       !.instr_data = <<>>,
                       !.flushed = @ + 1]
        ELSE Clear_and_exit(t, EXIT_ERR_PROFILE_FILE_CLOSED))

\* variant: the direct write leaves the structure size out
Print_record_to_file_no_size(process, func, io, size, clock) ==
    Let(process, LAMBDA t :
        IF t.log_open
        THEN [t EXCEPT !.trace_log = Append(@, Instrument_data(io, func, clock, 0))]
        ELSE Clear_and_exit(t, EXIT_ERR_PROFILE_FILE_CLOSED))

Print_record_to_file(process, func, io, size, clock) ==
    Let(process, LAMBDA t :
        IF t.log_open
        THEN [t EXCEPT !.trace_log = Append(@, Instrument_data(io, func, clock, size))]
        ELSE Clear_and_exit(t, EXIT_ERR_PROFILE_FILE_CLOSED))

\* instr_data.push_back(...)
Push_back(process, rec) ==
    Let(process, LAMBDA t :
        [t EXCEPT !.instr_data = Append(@, rec),
                  !.peak = Max(@, Len(t.instr_data) + 1)])

\* variant: at the cap the buffer is flushed and the record of the event is not kept
Create_instrumentation_record_drop_at_cap(process, func, io, clock) ==
    Let(process, LAMBDA t :
        IF Len(t.instr_data) >= max_records THEN Print_vector_to_file(t)
        ELSE IF t.config.use_direct_file_output = FALSE
             THEN Push_back(t, Instrument_data(io, func, clock, 0))
             ELSE Print_record_to_file(t, func, io, 0, clock))

\* Create_instrumentation_record(void *func, char io)
Create_instrumentation_record(process, func, io, clock) ==
    Let(process, LAMBDA t :
    Let(IF Len(t.instr_data) >= max_records THEN Print_vector_to_file(t) ELSE t,
        LAMBDA t1 :
        IF t1.exit_code # Running THEN t1
        ELSE IF t1.config.use_direct_file_output = FALSE
             THEN Push_back(t1, Instrument_data(io, func, clock, 0))
             ELSE Print_record_to_file(t1, func, io, 0, clock)))

\* variant: the sized overload buffers the record whatever the output mode
Create_instrumentation_record_sized_buffering(process, func, io, clock, size) ==
    Let(Push_back(process, Instrument_data(io, func, clock, size)), LAMBDA t1 :
        IF Len(t1.instr_data) >= max_records THEN Print_vector_to_file(t1) ELSE t1)

\* Create_instrumentation_record(void *func, char io, timestamp now, std::size_t size)
Create_instrumentation_record_sized(process, func, io, clock, size) ==
    Let(process, LAMBDA t :
    Let(IF t.config.use_direct_file_output = FALSE
        THEN Push_back(t, Instrument_data(io, func, clock, size))
        ELSE Print_record_to_file(t, func, io, size, clock),
        LAMBDA t1 :
        IF t1.exit_code # Running THEN t1
        ELSE IF Len(t1.instr_data) >= max_records THEN Print_vector_to_file(t1) ELSE t1))

Did(t, what) == [t EXCEPT !.did = what]

\* variant: the enter of a sampled function is recorded at the ratio and above
__cyg_profile_func_enter_at_least(process, func, clock) ==
    Let(process, LAMBDA t :
    IF ~t.trace_ready THEN Did(t, "ignored")
    ELSE IF func \in DOMAIN t.config.func_config /\ t.config.func_config[func].is_filtered
         THEN Did(t, "filtered")
    ELSE IF func \in DOMAIN t.config.func_config /\ t.config.func_config[func].is_sampled
         THEN Let([t EXCEPT !.config.func_config[func].sample_current = @ + 1],
                  LAMBDA t1 :
                  IF t1.config.func_config[func].sample_current
                        < t1.config.func_config[func].sample_ratio
                  THEN Did(t1, "dropped")
                  ELSE Create_instrumentation_record(Did(t1, "recorded"), func, "i", clock))
    ELSE Create_instrumentation_record(Did(t, "recorded"), func, "i", clock))

__cyg_profile_func_enter(process, func, clock) ==
    Let(process, LAMBDA t :
    IF ~t.trace_ready THEN Did(t, "ignored")
    ELSE IF func \in DOMAIN t.config.func_config /\ t.config.func_config[func].is_filtered
         THEN Did(t, "filtered")
    ELSE IF func \in DOMAIN t.config.func_config /\ t.config.func_config[func].is_sampled
         THEN Let([t EXCEPT !.config.func_config[func].sample_current = @ + 1],
                  LAMBDA t1 :
                  IF t1.config.func_config[func].sample_current
                        # t1.config.func_config[func].sample_ratio
                  THEN Did(t1, "dropped")
                  ELSE Create_instrumentation_record(Did(t1, "recorded"), func, "i", clock))
    ELSE Create_instrumentation_record(Did(t, "recorded"), func, "i", clock))

\* the tail of __cyg_profile_func_exit, lines 198-200
Record_exit(process, func, frame, clock) ==
    Let(process, LAMBDA t :
    Let(_profapi_get_size_record(t.size_stack, frame), LAMBDA r :
        Create_instrumentation_record_sized(
            [Did(t, "recorded") EXCEPT !.size_stack = r.size_stack],
            func, "o", clock, r.size)))

\* variant: the exit of a filtered function releases the size record of its frame
__cyg_profile_func_exit_filtered_release(process, func, frame, clock) ==
    Let(process, LAMBDA t :
    IF ~t.trace_ready THEN Did(t, "ignored")
    ELSE IF func \in DOMAIN t.config.func_config /\ t.config.func_config[func].is_filtered
         THEN [Did(t, "filtered") EXCEPT
                   !.size_stack = _profapi_remove_size_record(@, frame)]
    ELSE IF func \in DOMAIN t.config.func_config /\ t.config.func_config[func].is_sampled
         THEN IF t.config.func_config[func].sample_current
                    < t.config.func_config[func].sample_ratio
              THEN [Did(t, "dropped") EXCEPT
                        !.size_stack = _profapi_remove_size_record(@, frame)]
              ELSE Record_exit(
                      [t EXCEPT !.config.func_config[func].sample_current = sample_init],
                      func, frame, clock)
    ELSE Record_exit(t, func, frame, clock))

\* variant: the recorded exit of a sampled function restarts its counter from one
__cyg_profile_func_exit_reset_one(process, func, frame, clock) ==
    Let(process, LAMBDA t :
    IF ~t.trace_ready THEN Did(t, "ignored")
    ELSE IF func \in DOMAIN t.config.func_config /\ t.config.func_config[func].is_filtered
         THEN Did(t, "filtered")
    ELSE IF func \in DOMAIN t.config.func_config /\ t.config.func_config[func].is_sampled
         THEN IF t.config.func_config[func].sample_current
                    < t.config.func_config[func].sample_ratio
              THEN [Did(t, "dropped") EXCEPT
                        !.size_stack = _profapi_remove_size_record(@, frame)]
              ELSE Record_exit(
                      [t EXCEPT !.config.func_config[func].sample_current = sample_init + 1],
                      func, frame, clock)
    ELSE Record_exit(t, func, frame, clock))

\* variant: the recorded exit of a sampled function leaves its counter alone
__cyg_profile_func_exit_keep_count(process, func, frame, clock) ==
    Let(process, LAMBDA t :
    IF ~t.trace_ready THEN Did(t, "ignored")
    ELSE IF func \in DOMAIN t.config.func_config /\ t.config.func_config[func].is_filtered
         THEN Did(t, "filtered")
    ELSE IF func \in DOMAIN t.config.func_config /\ t.config.func_config[func].is_sampled
         THEN IF t.config.func_config[func].sample_current
                    < t.config.func_config[func].sample_ratio
              THEN [Did(t, "dropped") EXCEPT
                        !.size_stack = _profapi_remove_size_record(@, frame)]
              ELSE Record_exit(t, func, frame, clock)
    ELSE Record_exit(t, func, frame, clock))

\* variant: the recorded exit of a sampled function resets its ratio with its counter
__cyg_profile_func_exit_reset_ratio(process, func, frame, clock) ==
    Let(process, LAMBDA t :
    IF ~t.trace_ready THEN Did(t, "ignored")
    ELSE IF func \in DOMAIN t.config.func_config /\ t.config.func_config[func].is_filtered
         THEN Did(t, "filtered")
    ELSE IF func \in DOMAIN t.config.func_config /\ t.config.func_config[func].is_sampled
         THEN IF t.config.func_config[func].sample_current
                    < t.config.func_config[func].sample_ratio
              THEN [Did(t, "dropped") EXCEPT
                        !.size_stack = _profapi_remove_size_record(@, frame)]
              ELSE Record_exit(
                      [t EXCEPT !.config.func_config[func].sample_current = sample_init,
                                !.config.func_config[func].sample_ratio = sample_init],
                      func, frame, clock)
    ELSE Record_exit(t, func, frame, clock))

\* frame is __builtin_frame_address(1): the frame of the instrumented function
__cyg_profile_func_exit(process, func, frame, clock) ==
    Let(process, LAMBDA t :
    IF ~t.trace_ready THEN Did(t, "ignored")
    ELSE IF func \in DOMAIN t.config.func_config /\ t.config.func_config[func].is_filtered
         THEN Did(t, "filtered")
    ELSE IF func \in DOMAIN t.config.func_config /\ t.config.func_config[func].is_sampled
         THEN IF t.config.func_config[func].sample_current
                    < t.config.func_config[func].sample_ratio
              THEN [Did(t, "dropped") EXCEPT
                        !.size_stack = _profapi_remove_size_record(@, frame)]
              ELSE Record_exit(
                      [t EXCEPT !.config.func_config[func].sample_current = sample_init],
                      func, frame, clock)
    ELSE Record_exit(t, func, frame, clock))

\* variant: the constructor opens the trace log before it parses
Trace_context_wrapper_ctor_open_first(process, file, can_open) ==
    Let(process, LAMBDA t :
    Let(Parse(Configuration_ctor, t.position, file), LAMBDA r :
    Let([t EXCEPT !.config = r.conf, !.position = r.position,
                  !.trace_log = IF can_open THEN <<>> ELSE @], LAMBDA t1 :
        IF r.ret # 0 THEN [t1 EXCEPT !.exit_code = r.ret]
        ELSE IF ~can_open
             THEN Clear_and_exit(t1, EXIT_ERR_PROFILE_FILE_OPEN)
        ELSE [t1 EXCEPT !.instr_data = <<>>,
                        !.log_open = TRUE,
                        !.trace_ready = TRUE])))

\* Trace_context_wrapper::Trace_context_wrapper(); file is circ.conf on disk,
\* can_open tells whether the trace log file can be opened for writing.
\* reserve() throws std::length_error only above vector::max_size(), which is
\* beyond every storage size of the configuration texts of the model.
Trace_context_wrapper_ctor(process, file, can_open) ==
    Let(process, LAMBDA t :
    Let(Parse(Configuration_ctor, t.position, file), LAMBDA r :
    Let([t EXCEPT !.config = r.conf, !.position = r.position], LAMBDA t1 :
        IF r.ret # 0 THEN [t1 EXCEPT !.exit_code = r.ret]
        ELSE IF ~can_open
             THEN Clear_and_exit(t1, EXIT_ERR_PROFILE_FILE_OPEN)
        ELSE [t1 EXCEPT !.instr_data = <<>>,
                        !.trace_log = <<>>,
                        !.log_open = TRUE,
                        !.trace_ready = TRUE])))

\* variant: the destructor leaves the instrumentation enabled
Trace_context_wrapper_dtor_stays_ready(process) ==
    Let(process, LAMBDA t1 :
        IF t1.log_open
        THEN IF t1.config.use_direct_file_output = FALSE
             THEN Print_vector_to_file(t1)
             ELSE t1
        ELSE Clear_and_exit(t1, EXIT_ERR_PROFILE_FILE_CLOSED))

\* variant: the destructor leaves the buffer undrained
Trace_context_wrapper_dtor_no_drain(process) ==
    Let([process EXCEPT !.trace_ready = FALSE], LAMBDA t1 :
        IF t1.log_open THEN t1
        ELSE Clear_and_exit(t1, EXIT_ERR_PROFILE_FILE_CLOSED))

\* Trace_context_wrapper::~Trace_context_wrapper()
Trace_context_wrapper_dtor(process) ==
    Let([process EXCEPT !.trace_ready = FALSE], LAMBDA t1 :
        IF t1.log_open
        THEN IF t1.config.use_direct_file_output = FALSE
             THEN Print_vector_to_file(t1)
             ELSE t1
        ELSE Clear_and_exit(t1, EXIT_ERR_PROFILE_FILE_CLOSED))

----------------------------------------------------------------------------
(* Configuration texts the runs are started on.  A section is described by *)
(* a record and written out as circ.conf text by SectionText.              *)

RECURSIVE DecString(_)
DecString(n) ==
    IF n < 10 THEN <<DigitChars[n + 1]>>
    ELSE Append(DecString(n \div 10), DigitChars[(n % 10) + 1])

RECURSIVE Join(_, _)
Join(texts, sep) ==
    IF texts = <<>> THEN <<>>
    ELSE IF Len(texts) = 1 THEN texts[1]
    ELSE texts[1] \o sep \o Join(Tail(texts), sep)

SecName(name) == [kind |-> "name", name |-> name]
SecStorage(digits) == [kind |-> "storage", digits |-> digits]
SecOutput(direct) == [kind |-> "output", direct |-> direct]
SecFilter(funcs) == [kind |-> "filter", funcs |-> funcs]
SecSampling(entries) == [kind |-> "sampling", entries |-> entries]

SampleEntryText(e) ==
    <<"{"," ">> \o KW_func \o <<" ",":"," ">> \o DecString(e[1]) \o <<","," ">>
    \o KW_sample \o <<" ",":"," ">> \o DecString(e[2]) \o <<" ","}">>

SectionText(sec) ==
    CASE sec.kind = "name" ->
            KW_data_filename \o <<" ",":"," ","\"">> \o sec.name \o <<"\"">>
      [] sec.kind = "storage" -> KW_storage_size \o <<" ",":"," ">> \o sec.digits
      [] sec.kind = "output" ->
            KW_direct_output \o <<" ",":"," ">>
            \o (IF sec.direct THEN Lit_true ELSE Lit_false)
      [] sec.kind = "filter" ->
            KW_runtime_filter \o <<" ",":"," ","[">>
            \o Join([i \in DOMAIN sec.funcs |-> DecString(sec.funcs[i])], <<","," ">>)
            \o <<"]">>
      [] sec.kind = "sampling" ->
            KW_sampling \o <<" ",":"," ","[">>
            \o Join([i \in DOMAIN sec.entries |-> SampleEntryText(sec.entries[i])],
                    <<","," ">>)
            \o <<"]">>

ConfigText(sections) ==
    Lit_CIRC \o <<" ","="," ","{","\n">>
    \o Join([i \in DOMAIN sections |-> SectionText(sections[i])], <<",","\n">>)
    \o <<"\n","}","\n">>

\* An input: the sections, and how many characters of their text are in the
\* file (Whole: all of them; NoFile: there is no file).
Whole == -1
NoFile == -2

FileOf(inp) ==
    IF inp.cut = NoFile THEN Missing
    ELSE IF inp.cut = Whole THEN ConfigText(inp.sections)
    ELSE SubSeq(ConfigText(inp.sections), 1, inp.cut)

Digits_overflow == [i \in 1..21 |-> "9"]   \* larger than 2^64 - 1

\* characters kept of a text that breaks off inside its first section
CutShort == 12

\* Configurations of the collector runs
RunInputs ==
    {[sections |-> ss, cut |-> Whole] : ss \in {
        <<SecOutput(FALSE)>>,
        <<SecOutput(TRUE)>>,
        <<SecFilter(<<1>>)>>,
        <<SecSampling(<<<<1, 2>>>>)>>,
        <<SecOutput(TRUE), SecSampling(<<<<1, 3>>>>)>>,
        <<SecSampling(<<<<1, 0>>, <<1, 3>>>>)>>,
        <<SecStorage(Digits_overflow)>> }}
    \cup {[sections |-> <<>>, cut |-> NoFile]}
    \cup {[sections |-> <<SecOutput(TRUE)>>, cut |-> CutShort]}

----------------------------------------------------------------------------
(* The collector process *)

NoTwin == "no twin"

\* the process state held by the variables
Cur ==
    [config |-> config, position |-> position, instr_data |-> instr_data,
     trace_log |-> trace_log, log_open |-> log_open, trace_ready |-> trace_ready,
     size_stack |-> size_stack, struct_size_map |-> struct_size_map,
     exit_code |-> exit_code, did |-> "none", peak |-> 0, flushed |-> 0]

Install(t) ==
    /\ config' = t.config
    /\ position' = t.position
    /\ instr_data' = t.instr_data
    /\ trace_log' = t.trace_log
    /\ log_open' = t.log_open
    /\ trace_ready' = t.trace_ready
    /\ size_stack' = t.size_stack
    /\ struct_size_map' = t.struct_size_map
    /\ exit_code' = t.exit_code
    /\ peak' = Max(peak, t.peak)
    /\ flushes' = flushes + t.flushed

NoEvent == [kind |-> "none", func |-> 0, did |-> "none", call |-> 0,
            enter_recorded |-> FALSE, sampled |-> FALSE, frame |-> 0,
            fresh |-> TRUE, touched |-> {}, open |-> FALSE, ready |-> FALSE,
            size |-> 0]

InitWith(inputs) ==
    /\ input \in inputs
    /\ config_file = FileOf(input)
    /\ position = 0
    /\ config = Configuration_ctor
    /\ ret_code = NotRun
    /\ parse_log = <<>>
    /\ trace_ready = FALSE
    /\ instr_data = <<>>
    /\ trace_log = <<>>
    /\ log_open = FALSE
    /\ size_stack = <<>>
    /\ struct_size_map = EmptyMap
    /\ memory = [p \in {SizeField(StructAddr)} |-> sample_init + 1]
    /\ exit_code = Running
    /\ pc = "start"
    /\ call_stack = <<>>
    /\ now = 0
    /\ accepted = <<>>
    /\ calls = [f \in Funcs |-> [entered |-> 0, nested |-> FALSE]]
    /\ last_event = NoEvent
    /\ peak = 0
    /\ flushes = 0
    /\ twin = NoTwin

Init == InitWith(RunInputs)

TotalCalls == calls[1].entered + calls[2].entered

InProgress(f) == \E i \in DOMAIN call_stack : call_stack[i].func = f

Sampled(conf, f) ==
    f \in DOMAIN conf.func_config /\ conf.func_config[f].is_sampled

\* history of a call: what the process state t reached by a hook or an API
\* call for function f differs in from the state before the call
Touched(t, f) ==
    LET old == config.func_config
        new == t.config.func_config
        both == DOMAIN old \cap DOMAIN new
    IN (IF t.instr_data # instr_data THEN {"buffer"} ELSE {})
       \cup (IF t.trace_log # trace_log THEN {"log"} ELSE {})
       \cup (IF t.size_stack # size_stack THEN {"size_stack"} ELSE {})
       \cup (IF t.struct_size_map # struct_size_map THEN {"size_map"} ELSE {})
       \cup (IF [t.config EXCEPT !.func_config = EmptyMap]
                    # [config EXCEPT !.func_config = EmptyMap]
              THEN {"settings"} ELSE {})
       \cup (IF \/ DOMAIN old # DOMAIN new
                 \/ \E g \in both : [new[g] EXCEPT !.sample_current = 0]
                                       # [old[g] EXCEPT !.sample_current = 0]
              THEN {"policy"} ELSE {})
       \cup (IF \E g \in both \ {f} : new[g].sample_current # old[g].sample_current
              THEN {"sample_current of another"} ELSE {})
       \cup (IF f \in both /\ new[f].sample_current # old[f].sample_current
              THEN {"sample_current"} ELSE {})

\* static initialisation reaches the wrapper: its constructor runs
ConstructEv(can_open) ==
    /\ pc = "start" /\ exit_code = Running /\ call_stack = <<>>
    /\ \E r \in {Parse(Configuration_ctor, position, config_file)},
          t \in {Trace_context_wrapper_ctor(Cur, config_file, can_open)} :
          /\ Install(t)
          /\ ret_code' = r.ret
          /\ parse_log' = Append(parse_log, [store |-> r.conf, ret |-> r.ret])
          /\ pc' = IF t.exit_code = Running THEN "running" ELSE pc
    /\ UNCHANGED <<config_file, memory, input, call_stack, now, accepted, calls, last_event>>

\* the program enters the instrumented function f
EnterEv(f) ==
    /\ exit_code = Running
    /\ Len(call_stack) < MaxDepth
    /\ TotalCalls < MaxCalls
    /\ \E t \in {__cyg_profile_func_enter(Cur, f, now)},
          k \in {IF pc = "running" THEN calls[f].entered + 1 ELSE 0} :
          /\ Install(t)
          /\ call_stack' = Append(call_stack,
                [func |-> f, frame |-> FrameAddr(Len(call_stack) + 1), call |-> k,
                 recorded |-> (t.did = "recorded"),
                 fresh |-> \A i \in DOMAIN size_stack :
                              size_stack[i].stack_frame # FrameAddr(Len(call_stack) + 1),
                 size |-> 0])
          /\ calls' = IF pc = "running"
                      THEN [calls EXCEPT ![f] = [entered |-> k,
                                                  nested |-> @.nested \/ InProgress(f)]]
                      ELSE calls
          /\ accepted' = IF t.did = "recorded"
                         THEN Append(accepted,
                                [rec |-> Instrument_data("i", f, now, 0), call |-> k])
                         ELSE accepted
          /\ last_event' = [kind |-> "enter", func |-> f, did |-> t.did, call |-> k,
                            enter_recorded |-> (t.did = "recorded"),
                            sampled |-> Sampled(config, f),
                            frame |-> FrameAddr(Len(call_stack) + 1),
                            fresh |-> TRUE, touched |-> Touched(t, f),
                            open |-> log_open, ready |-> trace_ready, size |-> 0]
    /\ UNCHANGED <<config_file, memory, input, ret_code, parse_log, pc, now>>

\* the exit hook of the open call at index i of the call stack is called
ExitAt(i) ==
    /\ exit_code = Running
    /\ i \in DOMAIN call_stack
    /\ \E c \in {call_stack[i]} :
       \E t \in {__cyg_profile_func_exit(Cur, c.func, c.frame, now)} :
          /\ Install(t)
          /\ call_stack' = SubSeq(call_stack, 1, i - 1)
                              \o SubSeq(call_stack, i + 1, Len(call_stack))
          /\ accepted' = IF t.did = "recorded"
                         THEN Append(accepted,
                                [rec |-> Instrument_data("o", c.func, now,
                                    _profapi_get_size_record(size_stack, c.frame).size),
                                 call |-> c.call])
                         ELSE accepted
          /\ last_event' = [kind |-> "exit", func |-> c.func, did |-> t.did,
                            call |-> c.call, enter_recorded |-> c.recorded,
                            sampled |-> Sampled(config, c.func),
                            frame |-> c.frame, fresh |-> c.fresh,
                            touched |-> Touched(t, c.func), open |-> log_open,
                            ready |-> trace_ready, size |-> c.size]
    /\ UNCHANGED <<config_file, memory, input, ret_code, parse_log, pc, now, calls>>

\* the function at the top of the call stack returns
ExitEv == call_stack # <<>> /\ ExitAt(Len(call_stack))

\* the profiled structure registers itself (by value, size 0)
RegisterEv(is_injected) ==
    /\ exit_code = Running
    /\ StructAddr \notin DOMAIN struct_size_map
    /\ \E t \in {_profapi_register_size_value(Cur, StructAddr, is_injected, 0)} :
          Install(t)
    /\ UNCHANGED <<config_file, memory, input, ret_code, parse_log, pc, call_stack, now,
                   accepted, calls, last_event>>

\* the program announces the size of the structure from the function at the
\* top of the call stack
UsingEv(size) ==
    /\ exit_code = Running
    /\ Len(size_stack) < MaxUsing
    /\ StructAddr \in DOMAIN struct_size_map
    /\ \E t \in {_profapi_using_size_value(Cur, StructAddr, size,
                    FrameAddr(Len(call_stack)), FrameAddr(Len(call_stack) + 1))} :
          Install(t)
    /\ UNCHANGED <<config_file, memory, input, ret_code, parse_log, pc, call_stack, now,
                   accepted, calls, last_event>>

\* time passes
Tick ==
    /\ exit_code = Running
    /\ now < MaxTime
    /\ now' = now + 1
    /\ UNCHANGED <<config_file, memory, position, config, ret_code, parse_log, input,
                   trace_ready, instr_data, trace_log, log_open, size_stack,
                   struct_size_map, exit_code, pc, call_stack, accepted, calls,
                   last_event, peak, flushes, twin>>

\* the trace log stream is closed behind the collector's back
CloseLog ==
    /\ exit_code = Running
    /\ pc = "running"
    /\ log_open
    /\ log_open' = FALSE
    /\ UNCHANGED <<config_file, memory, position, config, ret_code, parse_log, input,
                   trace_ready, instr_data, trace_log, size_stack,
                   struct_size_map, exit_code, pc, call_stack, now, accepted, calls,
                   last_event, peak, flushes, twin>>

\* the process ends: the destructor of the static wrapper runs
DestructEv ==
    /\ pc = "running" /\ exit_code = Running
    /\ \E t \in {Trace_context_wrapper_dtor(Cur)} : Install(t)
    /\ pc' = "done"
    /\ UNCHANGED <<config_file, memory, input, ret_code, parse_log, call_stack, now,
                   accepted, calls, last_event>>

Construct == \E can_open \in BOOLEAN : ConstructEv(can_open) /\ UNCHANGED twin
Enter == \E f \in Funcs : pc = "running" /\ EnterEv(f) /\ UNCHANGED twin
Exit == pc = "running" /\ ExitEv /\ UNCHANGED twin
Destruct == DestructEv /\ UNCHANGED twin

\* Runs of a program that does not use the structure-size API: the wrapper is
\* constructed, main() makes instrumented calls, the wrapper is destroyed.
Next ==
    \/ Construct
    \/ Enter
    \/ Exit
    \/ Tick
    \/ CloseLog
    \/ Destruct

Spec == Init /\ [][Next]_vars

----------------------------------------------------------------------------
(* Runs of a program that uses the structure-size API: the profiled        *)
(* structure registers itself by value and the functions of the program    *)
(* announce its size, inside and between the instrumented calls.           *)

UseInputs ==
    {[sections |-> ss, cut |-> Whole] : ss \in {
        <<SecSampling(<<<<1, 2>>>>)>>,
        <<SecFilter(<<1>>)>> }}

InitUse == InitWith(UseInputs)

\* instrumented calls entered in one of these runs
MaxUseCalls == 2

UseEnter == TotalCalls < MaxUseCalls /\ Enter

UseRegister ==
    \E is_injected \in BOOLEAN :
        pc = "running" /\ RegisterEv(is_injected) /\ UNCHANGED twin

\* _profapi_using_size_value(list, size) called by the function at the top of
\* the call stack
UseUsing ==
    \E size \in Sizes :
        /\ pc = "running" /\ exit_code = Running
        /\ Len(size_stack) < MaxUsing
        /\ \E t \in {_profapi_using_size_value(Cur, StructAddr, size,
                        FrameAddr(Len(call_stack)), FrameAddr(Len(call_stack) + 1))} :
              /\ Install(t)
              /\ last_event' = [NoEvent EXCEPT !.kind = "using",
                                               !.touched = Touched(t, 0)]
        /\ UNCHANGED <<config_file, memory, input, ret_code, parse_log, pc, call_stack,
                       now, accepted, calls, twin>>

NextUse ==
    \/ Construct
    \/ UseEnter
    \/ Exit
    \/ UseRegister
    \/ UseUsing

SpecUse == InitUse /\ [][NextUse]_vars

----------------------------------------------------------------------------
(* Two processes in lockstep: the collector configured with function        *)
(* Filtered in its runtime_filter, and a twin whose configuration differs    *)
(* only in that Filtered is not listed.  Both see the same calls and the     *)
(* same using-size notifications of a program with a registered structure.   *)

Filtered == CHOOSE f \in Funcs : \A g \in Funcs : f <= g

RECURSIVE Without(_, _)
Without(funcs, f) ==
    IF funcs = <<>> THEN <<>>
    ELSE IF Head(funcs) = f THEN Without(Tail(funcs), f)
    ELSE <<Head(funcs)>> \o Without(Tail(funcs), f)

RECURSIVE Unfiltered(_, _)
\* the sections with f taken out of runtime_filter (a list left empty goes)
Unfiltered(sections, f) ==
    IF sections = <<>> THEN <<>>
    ELSE LET sec == Head(sections)
             rest == Unfiltered(Tail(sections), f)
         IN IF sec.kind # "filter" THEN <<sec>> \o rest
            ELSE IF Without(sec.funcs, f) = <<>> THEN rest
            ELSE <<SecFilter(Without(sec.funcs, f))>> \o rest

TwinInputs ==
    {[sections |-> ss, cut |-> Whole] : ss \in {
        <<SecOutput(FALSE), SecFilter(<<Filtered>>)>>,
        <<SecOutput(TRUE), SecFilter(<<Filtered>>)>> }}

InitTwin == InitWith(TwinInputs)

FreshProcess ==
    [config |-> Configuration_ctor, position |-> 0, instr_data |-> <<>>,
     trace_log |-> <<>>, log_open |-> FALSE, trace_ready |-> FALSE,
     size_stack |-> <<>>, struct_size_map |-> EmptyMap,
     exit_code |-> Running, did |-> "none", peak |-> 0, flushed |-> 0]

TwinConstruct ==
    /\ ConstructEv(TRUE)
    /\ twin' = Trace_context_wrapper_ctor(FreshProcess,
                  ConfigText(Unfiltered(input.sections, Filtered)), TRUE)

TwinEnter ==
    \E f \in Funcs :
        /\ pc = "running"
        /\ EnterEv(f)
        /\ twin' = __cyg_profile_func_enter(twin, f, now)

TwinExit ==
    /\ pc = "running"
    /\ ExitEv
    /\ twin' = __cyg_profile_func_exit(twin, call_stack[Len(call_stack)].func,
                                       call_stack[Len(call_stack)].frame, now)

TwinRegister ==
    \E is_injected \in BOOLEAN :
        /\ pc = "running"
        /\ RegisterEv(is_injected)
        /\ twin' = _profapi_register_size_value(twin, StructAddr, is_injected, 0)

TwinUsing ==
    \E size \in Sizes :
        /\ pc = "running"
        /\ UsingEv(size)
        /\ Len(twin.size_stack) < MaxUsing
        /\ twin' = _profapi_using_size_value(twin, StructAddr, size,
                        FrameAddr(Len(call_stack)), FrameAddr(Len(call_stack) + 1))

NextTwin ==
    \/ TwinConstruct
    \/ TwinEnter
    \/ TwinExit
    \/ TwinRegister
    \/ TwinUsing

SpecTwin == InitTwin /\ [][NextTwin]_vars

----------------------------------------------------------------------------
(* Parsing alone: a process that constructs Configuration objects and calls *)
(* Parse on each, one after the other (the static cursor is shared).        *)

\* sections in one configuration text
MaxSections == 3
\* Configuration objects parsed in one process
MaxParses == 2


SectionPool ==
    { SecName(<<"t",".","l","o","g">>),
      SecStorage(<<"7">>),
      SecStorage(Digits_overflow),
      SecOutput(TRUE),
      SecFilter(<<1>>),
      SecFilter(<<2, 1>>),
      SecSampling(<<<<1, 2>>>>),
      SecSampling(<<<<2, 3>>, <<1, 1>>>>),
      SecSampling(<<<<1, 0>>, <<1, 3>>>>),
      SecSampling(<<<<1, 3>>, <<1, 2>>>>) }

SectionSeqs == UNION {[1..n -> SectionPool] : n \in 0..MaxSections}

\* the text every truncation of which is an input
FullSections ==
    <<SecName(<<"t",".","l","o","g">>), SecStorage(<<"7">>), SecOutput(TRUE),
      SecFilter(<<2, 1>>), SecSampling(<<<<1, 2>>>>)>>

ParseInputs ==
    {[sections |-> ss, cut |-> Whole] : ss \in SectionSeqs}
    \cup {[sections |-> FullSections, cut |-> n] : n \in 0..Len(ConfigText(FullSections))}
    \cup {[sections |-> <<>>, cut |-> NoFile]}

InitParse == InitWith(ParseInputs)

\* Configuration c; c.Parse();
ParseFresh ==
    /\ exit_code = Running
    /\ Len(parse_log) < MaxParses
    /\ \E r \in {Parse(Configuration_ctor, position, config_file)} :
       /\ config' = r.conf
       /\ position' = r.position
       /\ ret_code' = r.ret
       /\ parse_log' = Append(parse_log, [store |-> r.conf, ret |-> r.ret])
       /\ exit_code' = IF r.ret = Uncaught THEN Uncaught ELSE exit_code
    /\ UNCHANGED <<config_file, memory, input, trace_ready, instr_data, trace_log, log_open,
                   size_stack, struct_size_map, pc, call_stack, now, accepted, calls,
                   last_event, peak, flushes, twin>>

NextParse == ParseFresh

SpecParse == InitParse /\ [][NextParse]_vars

----------------------------------------------------------------------------
(* The size channel alone: a program that calls the functions of           *)
(* profile_api.h in any order, from frames at any depth.                   *)

\* records on the size stack
MaxStack == 2

\* the program calls the size channel from functions at these depths
Callers == {1, 2}

\* frame addresses of the callers and of the function a caller calls
Frames == {FrameAddr(d) : d \in Callers} \cup {FrameAddr(d + 1) : d \in Callers}

InitSize == InitWith({[sections |-> <<>>, cut |-> NoFile]})

\* what the size channel does not touch
SizeFrame == <<config_file, position, config, ret_code, parse_log, input, trace_ready,
               instr_data, trace_log, log_open, pc, call_stack, now, accepted,
               calls, peak, flushes, twin>>

\* history of a call: its arguments (func holds the frame address), the value
\* it returned, the size stack and the map before it, and whether the call
\* before it was the same one
SizeEvent(kind, struct_addr, frame, ret) ==
    [kind |-> kind, struct |-> struct_addr, func |-> frame, ret |-> ret,
     before |-> [size_stack |-> size_stack, struct_size_map |-> struct_size_map],
     again |-> (last_event.kind = kind /\ last_event.func = frame)]

\* _profapi_register_size_address(struct_addr, is_injected, &struct_addr->size)
SizeRegisterAddress ==
    \E struct_addr \in {StructAddr}, is_injected \in BOOLEAN :
        /\ exit_code = Running
        /\ SizeField(struct_addr) \in DOMAIN memory
        /\ \E t \in {_profapi_register_size_address(Cur, struct_addr, is_injected,
                                                    SizeField(struct_addr))} :
              /\ struct_size_map' = t.struct_size_map
              /\ last_event' = SizeEvent("register_address", struct_addr, 0, 0)
        /\ UNCHANGED <<SizeFrame, size_stack, memory, exit_code>>

\* _profapi_register_size_value(struct_addr, is_injected, size)
SizeRegisterValue ==
    \E struct_addr \in {StructAddr}, is_injected \in BOOLEAN, size \in Sizes :
        /\ exit_code = Running
        /\ \E t \in {_profapi_register_size_value(Cur, struct_addr, is_injected, size)} :
              /\ struct_size_map' = t.struct_size_map
              /\ last_event' = SizeEvent("register_value", struct_addr, 0, 0)
        /\ UNCHANGED <<SizeFrame, size_stack, memory, exit_code>>

\* _profapi_unregister_size(struct_addr)
SizeUnregister ==
    \E struct_addr \in Structs :
        /\ exit_code = Running
        /\ \E t \in {_profapi_unregister_size(Cur, struct_addr)} :
              /\ struct_size_map' = t.struct_size_map
              /\ last_event' = SizeEvent("unregister", struct_addr, 0, 0)
        /\ UNCHANGED <<SizeFrame, size_stack, memory, exit_code>>

\* _profapi_using_size_address(struct_addr) called by the function at depth d
SizeUsingAddress ==
    \E struct_addr \in Structs, d \in Callers, undefined \in UndefinedReads :
        /\ exit_code = Running
        /\ Len(size_stack) < MaxStack
        /\ \E t \in {_profapi_using_size_address(Cur, struct_addr, FrameAddr(d),
                                                 FrameAddr(d + 1), memory, undefined)} :
              /\ size_stack' = t.size_stack
              /\ struct_size_map' = t.struct_size_map
              /\ exit_code' = t.exit_code
              /\ last_event' = SizeEvent("using_address", struct_addr, FrameAddr(d), 0)
        /\ UNCHANGED <<SizeFrame, memory>>

\* _profapi_using_size_value(struct_addr, size) called by the function at depth d
SizeUsingValue ==
    \E struct_addr \in Structs, d \in Callers, size \in Sizes :
        /\ exit_code = Running
        /\ Len(size_stack) < MaxStack
        /\ \E t \in {_profapi_using_size_value(Cur, struct_addr, size, FrameAddr(d),
                                               FrameAddr(d + 1))} :
              /\ size_stack' = t.size_stack
              /\ struct_size_map' = t.struct_size_map
              /\ last_event' = SizeEvent("using_value", struct_addr, FrameAddr(d), size)
        /\ UNCHANGED <<SizeFrame, memory, exit_code>>

\* size = _profapi_get_size_record(stack_frame)
SizeGet ==
    \E stack_frame \in Frames :
        /\ exit_code = Running
        /\ \E r \in {_profapi_get_size_record(size_stack, stack_frame)} :
              /\ size_stack' = r.size_stack
              /\ last_event' = SizeEvent("get", StructAddr, stack_frame, r.size)
        /\ UNCHANGED <<SizeFrame, struct_size_map, memory, exit_code>>

\* _profapi_remove_size_record(stack_frame)
SizeRemove ==
    \E stack_frame \in Frames :
        /\ exit_code = Running
        /\ size_stack' = _profapi_remove_size_record(size_stack, stack_frame)
        /\ last_event' = SizeEvent("remove", StructAddr, stack_frame, 0)
        /\ UNCHANGED <<SizeFrame, struct_size_map, memory, exit_code>>

\* _profapi_clean_size_records(stack_frame)
SizeClean ==
    \E stack_frame \in Frames :
        /\ exit_code = Running
        /\ size_stack' = _profapi_clean_size_records(size_stack, stack_frame)
        /\ last_event' = SizeEvent("clean", StructAddr, stack_frame, 0)
        /\ UNCHANGED <<SizeFrame, struct_size_map, memory, exit_code>>

\* the program changes the size field of a structure
SizeWrite ==
    \E struct_addr \in {StructAddr}, size \in Sizes :
        /\ exit_code = Running
        /\ SizeField(struct_addr) \in DOMAIN memory
        /\ memory[SizeField(struct_addr)] # size
        /\ memory' = [memory EXCEPT ![SizeField(struct_addr)] = size]
        /\ last_event' = SizeEvent("write", struct_addr, 0, size)
        /\ UNCHANGED <<SizeFrame, size_stack, struct_size_map, exit_code>>

\* the program destroys a structure without unregistering it
SizeFree ==
    \E struct_addr \in {StructAddr} :
        /\ exit_code = Running
        /\ SizeField(struct_addr) \in DOMAIN memory
        /\ memory' = [p \in (DOMAIN memory) \ {SizeField(struct_addr)} |-> memory[p]]
        /\ last_event' = SizeEvent("free", struct_addr, 0, 0)
        /\ UNCHANGED <<SizeFrame, size_stack, struct_size_map, exit_code>>

NextSize ==
    \/ SizeRegisterAddress
    \/ SizeRegisterValue
    \/ SizeUnregister
    \/ SizeUsingAddress
    \/ SizeUsingValue
    \/ SizeGet
    \/ SizeRemove
    \/ SizeClean
    \/ SizeWrite
    \/ SizeFree

SpecSize == InitSize /\ [][NextSize]_vars

----------------------------------------------------------------------------
(* Properties *)

\* every record the collector holds: the lines of the log, then the buffer
Recorded == trace_log \o instr_data

RecordsOf(records, f, action) ==
    Cardinality({i \in DOMAIN records :
                    records[i].function_address = f /\ records[i].action = action})

RECURSIVE OtherLines(_, _)
\* the records of the functions other than f, in order, without timestamps
OtherLines(records, f) ==
    IF records = <<>> THEN <<>>
    ELSE LET r == Head(records) IN
         (IF r.function_address = f THEN <<>>
          ELSE <<[action |-> r.action, function_address |-> r.function_address,
                  struct_size |-> r.struct_size]>>)
         \o OtherLines(Tail(records), f)

\* C1 (as claimed): with Filtered in runtime_filter no record names Filtered, and
\* the records of every other function (presence, order, direction, size field)
\* are those of the twin run in which Filtered is not filtered, also when the
\* filtered calls issue using-size notifications.
C1_FilterLeavesOthersAlone ==
    pc = "running" =>
        /\ \A i \in DOMAIN Recorded : Recorded[i].function_address # Filtered
        /\ OtherLines(Recorded, Filtered)
              = OtherLines(twin.trace_log \o twin.instr_data, Filtered)

\* the calls of f so far are complete and were never nested in one another
CompleteAlone(f) ==
    /\ pc \in {"running", "done"}
    /\ exit_code = Running
    /\ Sampled(config, f)
    /\ config.func_config[f].sample_ratio > 1
    /\ ~calls[f].nested
    /\ ~InProgress(f)

AcceptedCalls(f, action) ==
    {accepted[i].call : i \in {j \in DOMAIN accepted :
        accepted[j].rec.function_address = f /\ accepted[j].rec.action = action}}

\* C2 (as claimed): after M complete non-nested calls of a function sampled with
\* ratio N > 1 there are floor(M/N) enter and floor(M/N) exit records for it,
\* those of the N-th call of each run of N calls.
C2_FloorOfCalls ==
    \A f \in Funcs :
        CompleteAlone(f) =>
            LET M == calls[f].entered
                N == config.func_config[f].sample_ratio
            IN /\ RecordsOf(Recorded, f, "i") = M \div N
               /\ RecordsOf(Recorded, f, "o") = M \div N
               /\ AcceptedCalls(f, "i") = {k \in 1..M : k % N = 0}
               /\ AcceptedCalls(f, "o") = {k \in 1..M : k % N = 0}

\* C2 (amended): after M complete non-nested calls of a function sampled with
\* ratio N > 1 the collector holds (log lines, then buffered records) exactly
\* ceil(M/N) enter and ceil(M/N) exit records for it, those of the first call
\* of each run of N calls: calls 1, N+1, 2N+1, ...
C2_CeilOfCalls ==
    \A f \in Funcs :
        CompleteAlone(f) =>
            LET M == calls[f].entered
                N == config.func_config[f].sample_ratio
            IN /\ RecordsOf(Recorded, f, "i") = (M + N - 1) \div N
               /\ RecordsOf(Recorded, f, "o") = (M + N - 1) \div N
               /\ AcceptedCalls(f, "i") = {k \in 1..M : (k - 1) % N = 0}
               /\ AcceptedCalls(f, "o") = {k \in 1..M : (k - 1) % N = 0}

\* four complete calls of function 1 sampled with ratio 3: calls 1 and 4 recorded
C2_Witness ==
    /\ CompleteAlone(1)
    /\ config.func_config[1].sample_ratio = 3
    /\ calls[1].entered = 4
    /\ RecordsOf(Recorded, 1, "o") = 2

\* C3 (as claimed): the exit of a call of a sampled function is recorded exactly
\* when the enter of that same call was recorded, self-recursion included, and
\* after a recorded exit sample_current is 0.
C3_ExitIffMatchingEnter ==
    (last_event.kind = "exit" /\ last_event.sampled /\ exit_code = Running) =>
        /\ (last_event.did = "recorded") <=> last_event.enter_recorded
        /\ last_event.did = "recorded" =>
              config.func_config[last_event.func].sample_current = 0

\* C4: in buffered mode, when the log stayed open, the log after the destructor
\* holds exactly the accepted records, each once, in the order of acceptance.
C4_LogIsAccepted ==
    (pc = "done" /\ exit_code = Running /\ log_open
        /\ config.use_direct_file_output = FALSE) =>
        /\ instr_data = <<>>
        /\ trace_log = [i \in DOMAIN accepted |-> accepted[i].rec]

\* a run that crossed the cap twice and was drained at shutdown
C4_Witness ==
    /\ pc = "done" /\ exit_code = Running /\ log_open
    /\ config.use_direct_file_output = FALSE
    /\ flushes >= 3
    /\ Len(trace_log) > 2 * max_records

\* C5 (as claimed): the buffer never holds more than max_records records, not
\* even inside an append, and appending max_records + 1 records triggers
\* exactly one flush.
C5_NeverAboveCap ==
    /\ peak <= max_records
    /\ (pc = "running" /\ exit_code = Running /\ log_open
            /\ config.use_direct_file_output = FALSE
            /\ Len(accepted) = max_records + 1) => flushes = 1

\* C6: with internal_direct_output true the buffer is empty in every state and
\* every accepted event has its line in the log when its hook returns.
C6_DirectOutputUnbuffered ==
    (pc # "start" /\ config.use_direct_file_output = TRUE) =>
        /\ instr_data = <<>>
        /\ peak = 0
        /\ exit_code = Running =>
              trace_log = [i \in DOMAIN accepted |-> accepted[i].rec]

C6_Witness ==
    /\ pc = "running" /\ exit_code = Running
    /\ config.use_direct_file_output = TRUE
    /\ last_event.kind = "exit" /\ last_event.did = "recorded"
    /\ Len(trace_log) >= 4

SectionKinds(sections) == {sections[i].kind : i \in DOMAIN sections}

RepeatsSection(sections) ==
    \E i, j \in DOMAIN sections : i # j /\ sections[i].kind = sections[j].kind

\* every number of the sections fits its target type
InRange(sections) ==
    \A i \in DOMAIN sections :
        sections[i].kind = "storage" => FitsIn(sections[i].digits, ULONG_MAX_digits)

\* the text is the whole text of distinct sections with values in range
WellFormed(inp) ==
    /\ inp.cut = Whole
    /\ inp.sections # <<>>
    /\ ~RepeatsSection(inp.sections)
    /\ InRange(inp.sections)

\* C7 (as claimed): a text in which a section occurs twice makes every Parse
\* return the syntax-error code, whichever section and wherever it repeats.
C7_RepeatIsSyntaxError ==
    (input.cut = Whole /\ RepeatsSection(input.sections)) =>
        \A i \in DOMAIN parse_log : parse_log[i].ret = EXIT_ERR_CONFIG_FILE_SYNTAX

\* the settings and the policy table of a store
Settings(conf) ==
    [func_config |-> conf.func_config,
     trace_file_name |-> conf.trace_file_name,
     instr_data_init_len |-> conf.instr_data_init_len,
     use_direct_file_output |-> conf.use_direct_file_output]

\* C8 (as claimed): parsing the same well-formed text a second time in the
\* process, into a fresh store, succeeds and yields the store of the first parse.
C8_ReparseSameStore ==
    (WellFormed(input) /\ Len(parse_log) >= 2) =>
        /\ parse_log[2].ret = 0
        /\ Settings(parse_log[2].store) = Settings(parse_log[1].store)

\* C9 (as claimed): the text with no section parses and leaves the defaults.
C9_NoSectionParses ==
    (input.cut = Whole /\ input.sections = <<>> /\ Len(parse_log) >= 1) =>
        /\ parse_log[1].ret = 0
        /\ Settings(parse_log[1].store) = Settings(Configuration_ctor)

Permuted(sections) ==
    {[i \in DOMAIN sections |-> sections[q[i]]] : q \in Permutations(DOMAIN sections)}

\* C10: the first parse of a text of distinct well-formed sections succeeds,
\* and so does the first parse of every permutation of them, with the same
\* settings and the same policy table.
C10_OrderOfSections ==
    (WellFormed(input) /\ Len(parse_log) >= 1) =>
        /\ parse_log[1].ret = 0
        /\ \A other \in Permuted(input.sections) :
              LET r == Parse(Configuration_ctor, 0, ConfigText(other)) IN
              /\ r.ret = 0
              /\ Settings(r.conf) = Settings(parse_log[1].store)

\* sampling before runtime_filter, both naming function 1, parsed
C10_Witness ==
    /\ WellFormed(input)
    /\ Len(input.sections) = 3
    /\ input.sections[1] = SecSampling(<<<<1, 2>>>>)
    /\ input.sections[3] = SecFilter(<<1>>)
    /\ Len(parse_log) = 1
    /\ 1 \in DOMAIN config.func_config

\* C11: whenever Parse returns the missing-file or the syntax-error code, the
\* policy table of the store is empty, also when filter or sampling entries
\* had been inserted before the error was met.
C11_FailureClearsTable ==
    \A i \in DOMAIN parse_log :
        parse_log[i].ret \in {EXIT_ERR_CONFIG_FILE_OPEN, EXIT_ERR_CONFIG_FILE_SYNTAX}
            => parse_log[i].store.func_config = EmptyMap

\* runtime_filter [2, 1] is parsed, then its repetition is met: error 12
C11_Witness ==
    /\ input.cut = Whole
    /\ Len(input.sections) = 2
    /\ input.sections[1] = SecFilter(<<2, 1>>)
    /\ input.sections[2] = SecFilter(<<1>>)
    /\ Len(parse_log) = 1
    /\ parse_log[1].ret = EXIT_ERR_CONFIG_FILE_SYNTAX
    /\ parse_log[1].store.configuration_parsed[section_filter]
    /\ parse_log[1].store.func_config = EmptyMap

\* C12 (as claimed): no exception leaves Parse; every text that is not a
\* well-formed configuration, a number too large for its type included,
\* makes Parse return the syntax-error code.
C12_NoExceptionEscapes ==
    \A i \in DOMAIN parse_log :
        /\ parse_log[i].ret # Uncaught
        /\ (input.cut = Whole /\ ~InRange(input.sections))
              => parse_log[i].ret = EXIT_ERR_CONFIG_FILE_SYNTAX

\* function f has a sampling entry of ratio 0 or 1 and is in no runtime_filter
PlainEntry(sections, f) ==
    /\ \E i \in DOMAIN sections :
          /\ sections[i].kind = "sampling"
          /\ \E j \in DOMAIN sections[i].entries :
                /\ sections[i].entries[j][1] = f
                /\ sections[i].entries[j][2] <= 1
    /\ \A i \in DOMAIN sections :
          sections[i].kind = "filter" =>
              \A j \in DOMAIN sections[i].funcs : sections[i].funcs[j] # f

\* C13 (as claimed): a function with a sampling entry of ratio 0 or 1, not
\* filtered, has no policy entry, and every enter and exit of it is recorded.
C13_RatioOneRecordsAll ==
    \A f \in Funcs :
        (pc = "running" /\ exit_code = Running /\ PlainEntry(input.sections, f)) =>
            /\ f \notin DOMAIN config.func_config
            /\ (last_event.kind \in {"enter", "exit"} /\ last_event.func = f)
                  => last_event.did = "recorded"

\* the functions named by the runtime_filter sections
FilterFuncs(sections) ==
    UNION {Range(sections[i].funcs) : i \in {j \in DOMAIN sections :
                                                sections[j].kind = "filter"}}

\* the functions named by the sampling sections
SamplingFuncs(sections) ==
    UNION {{sections[i].entries[j][1] : j \in DOMAIN sections[i].entries} :
           i \in {j \in DOMAIN sections : sections[j].kind = "sampling"}}

\* C14: after a successful parse every function listed in runtime_filter has
\* is_filtered = TRUE and is_sampled = FALSE, also when a sampling section
\* names it, before or after; and no entry of the table has both flags.
C14_FilterFlags ==
    \A i \in DOMAIN parse_log :
        LET func_config == parse_log[i].store.func_config IN
        /\ \A f \in DOMAIN func_config :
              ~(func_config[f].is_filtered /\ func_config[f].is_sampled)
        /\ (parse_log[i].ret = 0 /\ input.cut = Whole) =>
              \A f \in FilterFuncs(input.sections) :
                  /\ f \in DOMAIN func_config
                  /\ func_config[f].is_filtered
                  /\ ~func_config[f].is_sampled

\* sampling [2:3, 1:1] and then runtime_filter [2, 1] parsed with success:
\* function 2 had a sampling entry when the filter section was read
C14_Witness ==
    /\ input.cut = Whole
    /\ Len(input.sections) = 2
    /\ input.sections[1] = SecSampling(<<<<2, 3>>, <<1, 1>>>>)
    /\ input.sections[2] = SecFilter(<<2, 1>>)
    /\ Len(parse_log) = 1
    /\ parse_log[1].ret = 0
    /\ parse_log[1].store.func_config[2].is_filtered

\* the policy entry a runtime_filter entry alone produces
FilteredPolicy == Config_details(TRUE, FALSE, sample_init, sample_init)

\* the section kind that names f first in the text
FirstWriter(sections, f) ==
    LET i == CHOOSE k \in DOMAIN sections :
                /\ \/ sections[k].kind = "filter" /\ f \in FilterFuncs(<<sections[k]>>)
                   \/ sections[k].kind = "sampling" /\ f \in SamplingFuncs(<<sections[k]>>)
                /\ \A l \in 1..(k - 1) :
                      f \notin FilterFuncs(<<sections[l]>>) \cup SamplingFuncs(<<sections[l]>>)
    IN sections[i].kind

\* the first successful parse of a well-formed text whose two sections both name f
BothName(f) ==
    /\ WellFormed(input)
    /\ Len(parse_log) >= 1
    /\ parse_log[1].ret = 0
    /\ f \in FilterFuncs(input.sections) \cap SamplingFuncs(input.sections)

\* C15 (as claimed): when runtime_filter and sampling name the same function,
\* the section that comes first in the text decides its policy: filtered when
\* runtime_filter is first, sampled (or no entry, for a ratio below 2) when
\* sampling is first.
C15_FirstWriterWins ==
    \A f \in Funcs :
        BothName(f) =>
            LET func_config == parse_log[1].store.func_config IN
            IF FirstWriter(input.sections, f) = "filter"
            THEN f \in DOMAIN func_config /\ func_config[f] = FilteredPolicy
            ELSE f \in DOMAIN func_config => func_config[f].is_sampled

\* C15 (amended): when runtime_filter and sampling name the same function, the
\* runtime_filter section decides its policy wherever it stands: the entry is
\* the one runtime_filter alone produces, with the sampling counters at 0.
C15_FilterWins ==
    \A f \in Funcs :
        BothName(f) => 
            /\ f \in DOMAIN parse_log[1].store.func_config
            /\ parse_log[1].store.func_config[f] = FilteredPolicy

\* sampling [1:2] stands first, runtime_filter [2, 1] second; function 1 is filtered
C15_Witness ==
    /\ BothName(1)
    /\ FirstWriter(input.sections, 1) = "sampling"
    /\ input.sections[1] = SecSampling(<<<<1, 2>>>>)
    /\ Len(input.sections) = 2
    /\ parse_log[1].store.func_config[1] = FilteredPolicy

Top(stack) == stack[Len(stack)]
Pop(stack) == SubSeq(stack, 1, Len(stack) - 1)

\* C16: _profapi_get_size_record(frame) pops the top record and returns its
\* size when the stack is not empty and the frame of the top record is frame;
\* otherwise, also when a record of frame lies below the top, it returns 0
\* and leaves the stack as it was.
C16_GetMatchesTopOnly ==
    last_event.kind = "get" =>
        LET stack == last_event.before.size_stack IN
        IF stack # <<>> /\ Top(stack).stack_frame = last_event.func
        THEN /\ last_event.ret = Top(stack).actual_size
             /\ size_stack = Pop(stack)
        ELSE /\ last_event.ret = 0
             /\ size_stack = stack

\* a record of the frame lies below a record of another frame: 0 is returned
\* and both records stay
C16_Witness ==
    /\ last_event.kind = "get"
    /\ Len(last_event.before.size_stack) = 2
    /\ last_event.before.size_stack[1].stack_frame = last_event.func
    /\ last_event.before.size_stack[2].stack_frame # last_event.func
    /\ last_event.ret = 0
    /\ size_stack = last_event.before.size_stack

\* C17 (as claimed): a _profapi_get_size_record(frame) that directly follows
\* another one for the same frame returns 0.
C17_SecondGetIsZero ==
    (last_event.kind = "get" /\ last_event.again) => last_event.ret = 0

\* C18 (as claimed): _profapi_clean_size_records(frame) removes every record
\* whose frame is greater than or equal to frame and no other record.
C18_CleanRemovesHigher ==
    last_event.kind = "clean" =>
        size_stack = SelectSeq(last_event.before.size_stack,
                               LAMBDA r : r.stack_frame < last_event.func)

\* C18 (amended): _profapi_clean_size_records(frame) removes the records at
\* the top of the stack down to, and without, the topmost record whose frame is
\* higher than frame; the records it removes have the same or a lower frame.
C18_CleanPopsTopRun ==
    last_event.kind = "clean" =>
        LET stack == last_event.before.size_stack IN
        \E k \in 0..Len(stack) :
            /\ size_stack = SubSeq(stack, 1, k)
            /\ \A i \in (k + 1)..Len(stack) : stack[i].stack_frame <= last_event.func
            /\ k > 0 => stack[k].stack_frame > last_event.func

\* the top record, of the frame cleaned, is removed; the record below it, of a
\* higher frame, stays
C18_Witness ==
    /\ last_event.kind = "clean"
    /\ Len(last_event.before.size_stack) = 2
    /\ Top(last_event.before.size_stack).stack_frame = last_event.func
    /\ last_event.before.size_stack[1].stack_frame > last_event.func
    /\ size_stack = <<last_event.before.size_stack[1]>>

\* C19: a using-size call for an address that has no entry in the map, never
\* registered or unregistered, pushes no record, adds no entry to the map
\* and does not end the process.
C19_UsingUnregisteredNoOp ==
    (/\ last_event.kind \in {"using_address", "using_value"}
     /\ last_event.struct \notin DOMAIN last_event.before.struct_size_map) =>
        /\ size_stack = last_event.before.size_stack
        /\ struct_size_map = last_event.before.struct_size_map
        /\ exit_code = Running

\* the profiled structure was registered (a record of it is on the stack), then
\* unregistered, and _profapi_using_size_value is called for it
C19_Witness ==
    /\ last_event.kind = "using_value"
    /\ last_event.struct = StructAddr
    /\ last_event.before.struct_size_map = EmptyMap
    /\ last_event.before.size_stack # <<>>
    /\ size_stack = last_event.before.size_stack
    /\ struct_size_map = EmptyMap

\* C20 (as claimed): for a registered live structure, registered with the
\* address of its size field or with a size value, _profapi_using_size_address
\* pushes one record of the frame of the call with the current size of the
\* structure, and the process goes on.
C20_UsingPushesCurrentSize ==
    (/\ last_event.kind = "using_address"
     /\ last_event.struct \in DOMAIN last_event.before.struct_size_map
     /\ SizeField(last_event.struct) \in DOMAIN memory) =>
        LET rec == last_event.before.struct_size_map[last_event.struct]
            stack_frame == IF rec.is_injected THEN last_event.func
                           ELSE last_event.func - 1
        IN /\ exit_code = Running
           /\ size_stack = Append(last_event.before.size_stack,
                                  Size_stack_record(stack_frame,
                                                    memory[SizeField(last_event.struct)]))

\* C21 (as claimed): when the exit of a call of a sampled function is dropped
\* and no record of the frame of the call was on the size stack when the call
\* was entered, no record of that frame is on the size stack after the exit.
C21_DroppedExitReleases ==
    (/\ last_event.kind = "exit"
     /\ last_event.did = "dropped"
     /\ last_event.fresh) =>
        \A i \in DOMAIN size_stack : size_stack[i].stack_frame # last_event.frame

\* C22: an enter or an exit of a filtered function changes neither the
\* buffer, nor the log, nor a sample_current counter or anything else of the
\* configuration, nor the size stack.
C22_FilteredNoSideEffect ==
    (last_event.kind \in {"enter", "exit"} /\ last_event.did = "filtered") =>
        last_event.touched = {}

\* the exit of a filtered call that announced the size of the structure, with
\* a record of another function in the buffer
C22_Witness ==
    /\ last_event.kind = "exit"
    /\ last_event.did = "filtered"
    /\ instr_data # <<>>
    /\ size_stack # <<>>
    /\ size_stack[Len(size_stack)].stack_frame = last_event.frame

\* the configuration without the sample_current counters
Parsed(conf) ==
    [conf EXCEPT !.func_config =
        [g \in DOMAIN conf.func_config |->
            [conf.func_config[g] EXCEPT !.sample_current = sample_init]]]

\* C28: while the collector runs, the configuration is the one Parse left,
\* but for the sample_current counters; a hook or a using-size call changes
\* no counter but the one of the sampled function of the event.
C28_ConfigurationStaysAsParsed ==
    (pc = "running" /\ exit_code = Running) =>
        /\ Parsed(config) = Parsed(parse_log[1].store)
        /\ last_event.touched \cap {"settings", "policy", "sample_current of another"} = {}
        /\ "sample_current" \in last_event.touched =>
              /\ last_event.kind \in {"enter", "exit"}
              /\ last_event.sampled

\* the recorded exit of a call of the sampled function, after a using-size
\* call: its counter is reset, no longer the value Parse gave it
C28_Witness ==
    /\ pc = "running" /\ exit_code = Running
    /\ last_event.kind = "exit" /\ last_event.did = "recorded" /\ last_event.sampled
    /\ "sample_current" \in last_event.touched
    /\ "size_stack" \in last_event.touched
    /\ config.func_config[1].sample_current
          # parse_log[1].store.func_config[1].sample_current

\* C23: with the trace log closed, a write ends the process with status 2,
\* the buffer and the policy table cleared, and adds no line to the log: the
\* direct write of a recorded event, the flush of the buffer at the cap, the
\* flush of the destructor.  While the process runs no accepted record is lost.
C23_ClosedLogIsFatal ==
    /\ exit_code = EXIT_ERR_PROFILE_FILE_CLOSED =>
          /\ ~log_open
          /\ instr_data = <<>>
          /\ config.func_config = EmptyMap
    /\ (pc = "done" /\ ~log_open) => exit_code = EXIT_ERR_PROFILE_FILE_CLOSED
    /\ (pc = "running" /\ exit_code = Running) =>
          trace_log \o instr_data = [i \in DOMAIN accepted |-> accepted[i].rec]
    /\ (last_event.kind \in {"enter", "exit"} /\ ~last_event.open) =>
          /\ "log" \notin last_event.touched
          /\ (last_event.did = "recorded" /\ config.use_direct_file_output)
                => exit_code = EXIT_ERR_PROFILE_FILE_CLOSED
          /\ (last_event.did = "recorded" /\ ~config.use_direct_file_output
                /\ exit_code = Running)
                => Len(instr_data) < max_records + (IF last_event.kind = "enter"
                                                    THEN 1 ELSE 0)

\* the buffer reached the cap with the log closed: the exit hook ended the process
C23_Witness ==
    /\ pc = "running"
    /\ exit_code = EXIT_ERR_PROFILE_FILE_CLOSED
    /\ ~config.use_direct_file_output
    /\ last_event.kind = "exit" /\ last_event.did = "recorded" /\ ~last_event.open
    /\ Len(accepted) = max_records
    /\ trace_log = <<>>

\* the records of function f among records, in order
LinesOf(records, f) == SelectSeq(records, LAMBDA r : r.function_address = f)

\* C27: of a function with no policy entry every enter and every exit is
\* recorded: as many 'i' records as calls entered and as many 'o' records as
\* calls returned (2K records after K complete calls), in the order of the
\* events, every 'o' after the 'i' of its own call, with timestamps that
\* never decrease; they are lines of the log at
\* once in direct mode and after the destructor in buffered mode.
C27_UnlistedAllRecorded ==
    \A f \in Funcs :
        (pc \in {"running", "done"} /\ exit_code = Running
            /\ f \notin DOMAIN config.func_config) =>
            LET lines == LinesOf(trace_log \o instr_data, f)
                open_calls == Cardinality({i \in DOMAIN call_stack :
                                              call_stack[i].func = f})
            IN /\ RecordsOf(lines, f, "i") = calls[f].entered
               /\ Len(lines) = 2 * calls[f].entered - open_calls
               /\ lines = LinesOf([i \in DOMAIN accepted |-> accepted[i].rec], f)
               /\ AcceptedCalls(f, "i") = 1..calls[f].entered
               /\ \A i \in DOMAIN accepted :
                     (accepted[i].rec.function_address = f
                         /\ accepted[i].rec.action = "o") =>
                        \E j \in 1..(i - 1) :
                            /\ accepted[j].call = accepted[i].call
                            /\ accepted[j].rec.function_address = f
                            /\ accepted[j].rec.action = "i"
               /\ \A i \in 2..Len(lines) : lines[i - 1].now <= lines[i].now
               /\ (pc = "done" \/ config.use_direct_file_output) =>
                     \A i \in DOMAIN instr_data : instr_data[i].function_address # f

\* internal_direct_output true and three complete calls of function 2: six
\* lines, i and o in turn, the last one later than the first
C27_Witness ==
    /\ pc = "running" /\ exit_code = Running
    /\ input.sections = <<SecOutput(TRUE)>>
    /\ calls[2].entered = 3 /\ calls[1].entered = 0
    /\ call_stack = <<>>
    /\ Len(trace_log) = 6
    /\ \A i \in 1..6 : trace_log[i].action = (IF i % 2 = 1 THEN "i" ELSE "o")
    /\ trace_log[1].now < trace_log[6].now

----------------------------------------------------------------------------
(* Buffer growth failure. instr_data.push_back() and instr_data.reserve()  *)
(* throw std::bad_alloc when memory is exhausted and std::length_error     *)
(* above max_size(). The collector of core/complexity_collector catches    *)
(* both around every append and hands the record to Handle_vector_failure; *)
(* the collector of collect/complexity appends with no handler. The two    *)
(* storage layers are run side by side on the same events. The member      *)
(* use_direct_file_output is held in config.use_direct_file_output for     *)
(* both. The constructor of the core wrapper initialises it with true      *)
(* (core profile.cpp:115) and nothing sets it to false, so the buffered    *)
(* path of that class has no caller in the program as built; it is run     *)
(* here with the member false as well, the value lines 124-135 and 231-244 *)
(* are written for.                                                        *)

\* what an allocation inside push_back() or reserve() does
Allocs == {"ok", "bad_alloc", "length_error"}

\* core Print_vector_to_file(): the buffer is written and left as it is
Print_vector_to_file_core(process) ==
    Let(process, LAMBDA t :
        IF t.log_open
        THEN [t EXCEPT !.trace_log = @ \o t.instr_data, !.flushed = @ + 1]
        ELSE Clear_and_exit(t, EXIT_ERR_PROFILE_FILE_CLOSED))

\* variant: a failed retry is followed by another append instead of the switch
Handle_vector_failure_retry_again(process, func, io, clock, retry) ==
    Let(process, LAMBDA t :
        IF t.log_open
        THEN Let(Print_vector_to_file_core(t), LAMBDA t1 :
                 Push_back([t1 EXCEPT !.instr_data = <<>>],
                           Instrument_data(io, func, clock, 0)))
        ELSE Clear_and_exit(t, EXIT_ERR_PROFILE_FILE_CLOSED))

\* variant: a failed retry writes the record and leaves the output mode alone
Handle_vector_failure_keep_mode(process, func, io, clock, retry) ==
    Let(process, LAMBDA t :
        IF t.log_open
        THEN Let(Print_vector_to_file_core(t), LAMBDA t1 :
             Let([t1 EXCEPT !.instr_data = <<>>], LAMBDA t2 :
                 IF retry = "ok"
                 THEN Push_back(t2, Instrument_data(io, func, clock, 0))
                 ELSE Print_record_to_file(t2, func, io, 0, clock)))
        ELSE Clear_and_exit(t, EXIT_ERR_PROFILE_FILE_CLOSED))

\* core Handle_vector_failure(void *func, char io); retry is what reserve()
\* and push_back() of the try block do. clear() and shrink_to_fit() come
\* before them and do not throw.
Handle_vector_failure(process, func, io, clock, retry) ==
    Let(process, LAMBDA t :
        IF t.log_open
        THEN Let(Print_vector_to_file_core(t), LAMBDA t1 :
             Let([t1 EXCEPT !.instr_data = <<>>], LAMBDA t2 :
                 IF retry = "ok"
                 THEN Push_back(t2, Instrument_data(io, func, clock, 0))
                 ELSE Print_record_to_file(
                          [t2 EXCEPT !.config.use_direct_file_output = TRUE],
                          func, io, 0, clock)))
        ELSE Clear_and_exit(t, EXIT_ERR_PROFILE_FILE_CLOSED))

\* core Create_instrumentation_record(void *func, char io); alloc is what
\* push_back() of the try block does
Create_instrumentation_record_core(process, func, io, clock, alloc, retry) ==
    Let(process, LAMBDA t :
        IF t.config.use_direct_file_output = FALSE
        THEN IF alloc = "ok"
             THEN Push_back(t, Instrument_data(io, func, clock, 0))
             ELSE Handle_vector_failure(t, func, io, clock, retry)
        ELSE Print_record_to_file(t, func, io, 0, clock))

\* the exception leaves the function that called push_back(): no try block
\* encloses the call
Propagate(t) == [t EXCEPT !.exit_code = Uncaught]

\* Create_instrumentation_record(void *func, char io) with a push_back()
\* that does alloc
Create_instrumentation_record_alloc(process, func, io, clock, alloc) ==
    Let(process, LAMBDA t :
    Let(IF Len(t.instr_data) >= max_records THEN Print_vector_to_file(t) ELSE t,
        LAMBDA t1 :
        IF t1.exit_code # Running THEN t1
        ELSE IF t1.config.use_direct_file_output = FALSE
             THEN IF alloc = "ok"
                  THEN Push_back(t1, Instrument_data(io, func, clock, 0))
                  ELSE Propagate(t1)
             ELSE Print_record_to_file(t1, func, io, 0, clock)))

\* Create_instrumentation_record(void *func, char io, timestamp now,
\* std::size_t size) with a push_back() that does alloc
Create_instrumentation_record_sized_alloc(process, func, io, clock, size, alloc) ==
    Let(process, LAMBDA t :
        IF t.config.use_direct_file_output = FALSE /\ alloc # "ok"
        THEN Propagate(t)
        ELSE Create_instrumentation_record_sized(t, func, io, clock, size))

\* records the core buffer holds before memory runs out for certain
MaxBuffer == 2
\* events handed to the storage layer in a run
MaxGrowEvents == 3

GrowInputs ==
    {[collector |-> c, use_direct_file_output |-> d] :
        c \in {"core", "collect"}, d \in BOOLEAN}

\* the wrapper is constructed, the trace log is open, no policy entry exists
InitGrow ==
    /\ input \in GrowInputs
    /\ config_file = <<>>
    /\ position = 0
    /\ config = [Configuration_ctor EXCEPT
                    !.use_direct_file_output = input.use_direct_file_output]
    /\ ret_code = 0
    /\ parse_log = <<>>
    /\ trace_ready = TRUE
    /\ instr_data = <<>>
    /\ trace_log = <<>>
    /\ log_open = TRUE
    /\ size_stack = <<>>
    /\ struct_size_map = EmptyMap
    /\ memory = [p \in {SizeField(StructAddr)} |-> sample_init + 1]
    /\ exit_code = Running
    /\ pc = "running"
    /\ call_stack = <<>>
    /\ now = 0
    /\ accepted = <<>>
    /\ calls = [f \in Funcs |-> [entered |-> 0, nested |-> FALSE]]
    /\ last_event = [kind |-> "none"]
    /\ peak = 0
    /\ flushes = 0
    /\ twin = NoTwin

\* a hook of a function with no policy entry hands its event to the storage
\* layer: 'i' to Create_instrumentation_record(func, 'i'), 'o' to the second
\* overload of the collect/complexity collector (no size record: size 0)
GrowRecord ==
    /\ exit_code = Running /\ pc = "running"
    /\ Len(accepted) < MaxGrowEvents
    /\ \E func \in Funcs, io \in {"i", "o"}, alloc \in Allocs, retry \in Allocs :
          \* nothing is allocated in direct mode; nothing is retried without a
          \* failure or without a handler
          /\ config.use_direct_file_output => alloc = "ok"
          /\ (alloc = "ok" \/ input.collector = "collect") => retry = "ok"
          /\ (input.collector = "core" /\ Len(instr_data) >= MaxBuffer) => alloc # "ok"
          /\ \E t \in {IF input.collector = "core"
                       THEN Create_instrumentation_record_core(Cur, func, io, now, alloc, retry)
                       ELSE IF io = "i"
                            THEN Create_instrumentation_record_alloc(Cur, func, io, now, alloc)
                            ELSE Create_instrumentation_record_sized_alloc(
                                     Cur, func, io, now, 0, alloc)} :
                /\ Install(t)
                /\ accepted' = Append(accepted,
                      [rec |-> Instrument_data(io, func, now, 0), call |-> 0,
                       failed |-> (alloc # "ok" /\ log_open),
                       degraded |-> (alloc # "ok" /\ retry # "ok" /\ log_open
                                        /\ input.collector = "core")])
                /\ last_event' =
                      [kind |-> "record", rec |-> Instrument_data(io, func, now, 0),
                       alloc |-> alloc, retry |-> retry,
                       direct |-> config.use_direct_file_output,
                       open |-> log_open, buffer |-> instr_data, log |-> trace_log]
    /\ UNCHANGED <<config_file, memory, input, ret_code, parse_log, pc, call_stack,
                   now, calls, twin>>

NextGrow ==
    \/ GrowRecord
    \/ Tick
    \/ CloseLog

SpecGrow == InitGrow /\ [][NextGrow]_vars

\* the last event met a growth failure: its push_back() threw
GrowthFailed == last_event.kind = "record" /\ last_event.alloc # "ok"

\* C24: a growth failure with the log open does not leave the hook as an
\* exception: the buffered records are written to the log and the record of
\* the event is recorded after them.
C24_GrowthFailureContained ==
    (GrowthFailed /\ last_event.open) =>
        /\ exit_code = Running
        /\ trace_log \o instr_data
              = last_event.log \o last_event.buffer \o <<last_event.rec>>
        /\ Len(trace_log) >= Len(last_event.log) + Len(last_event.buffer)

FirstRatio(sections, f) ==
    LET i == CHOOSE k \in DOMAIN sections :
                sections[k].kind = "sampling" /\ f \in SamplingFuncs(<<sections[k]>>)
        entries == sections[i].entries
        j == CHOOSE k \in DOMAIN entries :
                /\ entries[k][1] = f
                /\ \A l \in 1..(k - 1) : entries[l][1] # f
    IN entries[j][2]

\* C30 (as claimed): of several sampling entries for one function that is not
\* filtered the first is taken: after a successful parse the policy of the
\* function is the one its first entry alone produces, which is no entry at
\* all for a ratio of 0 or 1 and (sampled, ratio - 1, ratio) otherwise.
C30_FirstSamplingEntryTaken ==
    \A f \in Funcs :
        (/\ WellFormed(input)
         /\ Len(parse_log) >= 1
         /\ parse_log[1].ret = 0
         /\ f \in SamplingFuncs(input.sections) \ FilterFuncs(input.sections)) =>
            LET func_config == parse_log[1].store.func_config
                ratio == FirstRatio(input.sections, f)
            IN IF ratio > 1
               THEN /\ f \in DOMAIN func_config
                    /\ func_config[f] = Config_details(FALSE, TRUE, ratio - 1, ratio)
               ELSE f \notin DOMAIN func_config

\* the configuration file exists and its text is not a configuration: it
\* breaks off, repeats a section or holds a number too large for its type
BadText(inp) ==
    /\ inp.cut # NoFile
    /\ \/ inp.cut # Whole
       \/ RepeatsSection(inp.sections)
       \/ ~InRange(inp.sections)

\* C29 (as claimed): once the constructor has run, a missing configuration
\* file has ended the process with 11 and a text that is not a configuration
\* with 12; a trace log that cannot be opened ends it with 1 and a trace log
\* found closed with 2; and each status is given for its own class only.
C29_StatusPerFailureClass ==
    /\ (parse_log # <<>> /\ input.cut = NoFile) =>
          exit_code = EXIT_ERR_CONFIG_FILE_OPEN
    /\ (parse_log # <<>> /\ BadText(input)) =>
          exit_code = EXIT_ERR_CONFIG_FILE_SYNTAX
    /\ (parse_log # <<>> /\ parse_log[1].ret = 0 /\ pc = "start") =>
          exit_code = EXIT_ERR_PROFILE_FILE_OPEN
    /\ (pc = "done" /\ ~log_open) => exit_code = EXIT_ERR_PROFILE_FILE_CLOSED
    /\ exit_code = EXIT_ERR_CONFIG_FILE_OPEN => input.cut = NoFile
    /\ exit_code = EXIT_ERR_CONFIG_FILE_SYNTAX => BadText(input)
    /\ exit_code = EXIT_ERR_PROFILE_FILE_OPEN =>
          /\ pc = "start" /\ parse_log[1].ret = 0 /\ ~log_open /\ ~trace_ready
    /\ exit_code = EXIT_ERR_PROFILE_FILE_CLOSED =>
          /\ pc \in {"running", "done"} /\ parse_log[1].ret = 0 /\ ~log_open
    /\ exit_code \in {Running, EXIT_ERR_PROFILE_FILE_OPEN, EXIT_ERR_PROFILE_FILE_CLOSED,
                      EXIT_ERR_CONFIG_FILE_OPEN, EXIT_ERR_CONFIG_FILE_SYNTAX}

\* the number of records at the top of stack, counted from the top, that
\* come before the first record of a frame higher than stack_frame
TopRun(stack, stack_frame) ==
    Cardinality({n \in 1..Len(stack) :
                    \A i \in (Len(stack) - n + 1)..Len(stack) :
                        stack[i].stack_frame <= stack_frame})

\* C31: _profapi_clean_size_records(stack_frame) pops the records of the
\* longest run at the top of the stack whose frames are the same as or lower
\* than stack_frame, as many as that run has: the record left on top, if
\* any, has a higher frame, it and the records below it are as they were,
\* also those of them with a lower frame, and the map is not touched.
C31_CleanPopsMaximalRun ==
    last_event.kind = "clean" =>
        LET stack == last_event.before.size_stack
            n == TopRun(stack, last_event.func)
        IN /\ Len(size_stack) = Len(stack) - n
           /\ \A i \in DOMAIN size_stack : size_stack[i] = stack[i]
           /\ size_stack # <<>> => Top(size_stack).stack_frame > last_event.func
           /\ \A i \in (Len(size_stack) + 1)..Len(stack) :
                 stack[i].stack_frame <= last_event.func
           /\ struct_size_map = last_event.before.struct_size_map

\* two records at the top are popped in one call: both frames are the same
\* as or lower than the frame cleaned
C31_Witness ==
    /\ last_event.kind = "clean"
    /\ Len(last_event.before.size_stack) = 2
    /\ \E i \in 1..2 : last_event.before.size_stack[i].stack_frame < last_event.func
    /\ \E i \in 1..2 : last_event.before.size_stack[i].stack_frame = last_event.func
    /\ size_stack = <<>>

----------------------------------------------------------------------------
(* The life cycle of the wrapper. The wrapper is a static object: the      *)
(* static constructors and destructors of the program run instrumented     *)
(* functions and use the size API before the wrapper is constructed and    *)
(* after it is destroyed. The trace log file may hold the lines of an      *)
(* earlier run. A second process with the opposite output mode is run on   *)
(* the same events.                                                        *)

\* a line left in the trace log file by an earlier run
OldLine == Instrument_data("o", 2, 0, 0)

\* the sections with internal_direct_output set to the opposite value
OtherMode(sections) ==
    IF \E i \in DOMAIN sections : sections[i].kind = "output"
    THEN [i \in DOMAIN sections |->
             IF sections[i].kind = "output"
             THEN SecOutput(~sections[i].direct) ELSE sections[i]]
    ELSE <<SecOutput(TRUE)>> \o sections

LifeInputs ==
    {[sections |-> ss, cut |-> c, old_log |-> old] :
        ss \in { <<SecSampling(<<<<1, 2>>>>)>>, <<SecOutput(TRUE)>> },
        c \in {Whole, CutShort},
        old \in {<<>>, <<OldLine>>}}
    \cup {[sections |-> <<>>, cut |-> NoFile, old_log |-> <<OldLine>>]}
    \cup {[sections |-> <<SecStorage(Digits_overflow)>>, cut |-> Whole,
           old_log |-> <<OldLine>>]}

InitLife ==
    /\ input \in LifeInputs
    /\ config_file = FileOf(input)
    /\ position = 0
    /\ config = Configuration_ctor
    /\ ret_code = NotRun
    /\ parse_log = <<>>
    /\ trace_ready = FALSE
    /\ instr_data = <<>>
    /\ trace_log = input.old_log
    /\ log_open = FALSE
    /\ size_stack = <<>>
    /\ struct_size_map = EmptyMap
    /\ memory = [p \in {SizeField(StructAddr)} |-> sample_init + 1]
    /\ exit_code = Running
    /\ pc = "start"
    /\ call_stack = <<>>
    /\ now = 0
    /\ accepted = <<>>
    /\ calls = [f \in Funcs |-> [entered |-> 0, nested |-> FALSE]]
    /\ last_event = NoEvent
    /\ peak = 0
    /\ flushes = 0
    /\ twin = [FreshProcess EXCEPT !.trace_log = input.old_log]

\* instrumented calls entered between construction and destruction
MaxLifeCalls == 1

LifeConstruct ==
    \E can_open \in BOOLEAN :
        /\ ConstructEv(can_open)
        /\ twin' = Trace_context_wrapper_ctor(twin,
                      IF input.cut = Whole
                      THEN ConfigText(OtherMode(input.sections))
                      ELSE config_file, can_open)

LifeEnter ==
    \E f \in Funcs :
        /\ TotalCalls < MaxLifeCalls
        /\ Len(call_stack) < MaxLifeCalls
        /\ EnterEv(f)
        /\ twin' = __cyg_profile_func_enter(twin, f, now)

LifeExit ==
    /\ ExitEv
    /\ twin' = __cyg_profile_func_exit(twin, call_stack[Len(call_stack)].func,
                                       call_stack[Len(call_stack)].frame, now)

LifeRegister ==
    \E is_injected \in BOOLEAN :
        /\ RegisterEv(is_injected)
        /\ twin' = _profapi_register_size_value(twin, StructAddr, is_injected, 0)

LifeUsing ==
    \E size \in Sizes :
        /\ Len(size_stack) < MaxLifeCalls
        /\ UsingEv(size)
        /\ twin' = _profapi_using_size_value(twin, StructAddr, size,
                        FrameAddr(Len(call_stack)), FrameAddr(Len(call_stack) + 1))

LifeDestruct ==
    /\ DestructEv
    /\ twin' = Trace_context_wrapper_dtor(twin)

NextLife ==
    \/ LifeConstruct
    \/ LifeEnter
    \/ LifeExit
    \/ LifeRegister
    \/ LifeUsing
    \/ LifeDestruct

SpecLife == InitLife /\ [][NextLife]_vars

\* C32: trace_ready is true only between a constructor that parsed the
\* configuration with success and opened the trace log and the destructor;
\* after the destructor it is false and no record is in the buffer, whatever
\* arrives later; a hook that arrives while trace_ready is false changes
\* nothing: no record, no sample_current, no size record.
C32_ReadyOnlyWhileAlive ==
    /\ trace_ready =>
          /\ pc = "running" /\ exit_code = Running
          /\ parse_log # <<>> /\ parse_log[1].ret = 0
          /\ log_open
    /\ pc \in {"start", "done"} => ~trace_ready
    /\ (pc = "done" /\ exit_code = Running) =>
          /\ instr_data = <<>>
          /\ trace_log = [i \in DOMAIN accepted |-> accepted[i].rec]
    /\ last_event.kind \in {"enter", "exit"} =>
          /\ last_event.did = "ignored" <=> ~last_event.ready
          /\ ~last_event.ready => last_event.touched = {}

\* the exit of a recorded call of the sampled function arrives after the
\* destructor: its size record, its sample_current and the log stay
C32_Witness ==
    /\ pc = "done" /\ exit_code = Running
    /\ last_event.kind = "exit" /\ last_event.func = 1 /\ ~last_event.ready
    /\ last_event.enter_recorded
    /\ size_stack # <<>> /\ Top(size_stack).stack_frame = last_event.frame
    /\ 1 \in DOMAIN config.func_config
    /\ config.func_config[1].sample_current = config.func_config[1].sample_ratio
    /\ Len(trace_log) = 1

\* C38: the constructor parses before it opens the trace log: once Parse has
\* failed, the trace log file still holds what it held before the run, it
\* was never opened, no event was recorded or buffered, trace_ready is
\* false, and the wrapper never comes to life; when Parse returned the code
\* of a missing file or of a syntax error, that code is the exit status.
C38_FailedParseLeavesLog ==
    /\ log_open => (parse_log # <<>> /\ parse_log[1].ret = 0)
    /\ (parse_log # <<>> /\ parse_log[1].ret # 0) =>
          /\ ~log_open /\ ~trace_ready /\ pc = "start"
          /\ trace_log = input.old_log
          /\ accepted = <<>> /\ instr_data = <<>>
          /\ exit_code # Running
          /\ parse_log[1].ret \in {EXIT_ERR_CONFIG_FILE_OPEN, EXIT_ERR_CONFIG_FILE_SYNTAX}
                => exit_code = parse_log[1].ret
    /\ (parse_log # <<>> /\ input.cut = NoFile) =>
          parse_log[1].ret = EXIT_ERR_CONFIG_FILE_OPEN
    /\ (parse_log # <<>> /\ input.cut = CutShort) =>
          parse_log[1].ret = EXIT_ERR_CONFIG_FILE_SYNTAX

\* a truncated configuration text met a trace log file with a line of an
\* earlier run, which could have been opened: the process ended with the code
\* of a syntax error, the line is still there
C38_Witness ==
    /\ parse_log # <<>> /\ input.cut = CutShort
    /\ exit_code = EXIT_ERR_CONFIG_FILE_SYNTAX
    /\ trace_log = <<OldLine>> /\ twin.trace_log = <<OldLine>>
    /\ size_stack # <<>>

\* a token request at cursor pos of the text either throws, or reports the
\* end of input leaving the cursor at the end, or returns a token and leaves
\* the cursor further on than it found it
TokenAdvances(file_contents, pos) ==
    Let(Next_token(file_contents, pos), LAMBDA t :
        \/ t.thrown
        \/ t.type = "File_end" /\ t.position = Len(file_contents)
        \/ t.type # "File_end" /\ t.position > pos /\ t.position <= Len(file_contents))

\* C33 (as claimed): every Parse of a finite text returns 0 or an error code;
\* every token request advances the cursor or reports the end of input; and
\* a text that ends before the closing brace, so that the end of input is met
\* inside a loop, makes Parse return the syntax error.
C33_ParseReturns ==
    /\ \A i \in DOMAIN parse_log :
          parse_log[i].ret \in {0, EXIT_ERR_CONFIG_FILE_OPEN, EXIT_ERR_CONFIG_FILE_SYNTAX}
    /\ config_file # Missing =>
          \A pos \in 0..Len(config_file) : TokenAdvances(config_file, pos)
    /\ (parse_log # <<>> /\ config_file # Missing
                         /\ \A i \in DOMAIN config_file : config_file[i] # "}") =>
          parse_log[1].ret = EXIT_ERR_CONFIG_FILE_SYNTAX

----------------------------------------------------------------------------
(* The hooks under any sequence of events. The exit hook of an open call   *)
(* may arrive while calls entered after it are still open (a call left by  *)
(* longjmp or by exit misses its exit hook), and the exit hook of a        *)
(* sampled function may arrive with no call of the function open. The      *)
(* call stack is then the list of the calls whose exit has not arrived.    *)

SampleInputs ==
    {[sections |-> ss, cut |-> Whole] : ss \in {
        <<SecSampling(<<<<1, 2>>>>)>>,
        <<SecSampling(<<<<1, 3>>>>)>>,
        <<SecOutput(TRUE), SecSampling(<<<<1, 2>>, <<2, 2>>>>)>> }}

InitSample == InitWith(SampleInputs)

\* the exit hook of the latest open call of some function
SampleExit ==
    \E i \in DOMAIN call_stack :
        /\ pc = "running"
        /\ \A j \in DOMAIN call_stack : call_stack[j].func = call_stack[i].func => j <= i
        /\ ExitAt(i)
        /\ UNCHANGED twin

\* the exit hook of a sampled function no call of which is open
StrayExit ==
    \E f \in Funcs :
        /\ pc = "running" /\ exit_code = Running
        /\ Sampled(config, f) /\ ~InProgress(f)
        /\ \E t \in {__cyg_profile_func_exit(Cur, f, FrameAddr(1), now)} :
              /\ Install(t)
              /\ accepted' = IF t.did = "recorded"
                             THEN Append(accepted,
                                    [rec |-> Instrument_data("o", f, now,
                                        _profapi_get_size_record(size_stack, FrameAddr(1)).size),
                                     call |-> 0])
                             ELSE accepted
              /\ last_event' = [NoEvent EXCEPT !.kind = "exit", !.func = f, !.did = t.did,
                                               !.sampled = TRUE, !.frame = FrameAddr(1),
                                               !.touched = Touched(t, f),
                                               !.open = log_open, !.ready = trace_ready]
        /\ UNCHANGED <<config_file, memory, input, ret_code, parse_log, pc, call_stack,
                       now, calls, twin>>

NextSample ==
    \/ Construct
    \/ Enter
    \/ SampleExit
    \/ StrayExit

SpecSample == InitSample /\ [][NextSample]_vars

\* C35: the recorded lines of a sampled function, whatever the sequence of
\* its enter and exit events, alternate between enter and exit and start
\* with an enter.
C35_SampledLinesAlternate ==
    \A f \in Funcs :
        (pc = "running" /\ Sampled(config, f)) =>
            LET lines == LinesOf(trace_log \o instr_data, f)
            IN /\ \A j \in DOMAIN lines :
                     lines[j].action = IF j % 2 = 1 THEN "i" ELSE "o"
               /\ lines = LinesOf([i \in DOMAIN accepted |-> accepted[i].rec], f)

\* function 1 was entered twice in a row and left twice, then entered and
\* left twice more, and a further exit arrived with no call of it open:
\* the lines of function 1 are i, o, i, o
C35_Witness ==
    /\ pc = "running" /\ Sampled(config, 1) /\ calls[1].nested
    /\ last_event.kind = "exit" /\ last_event.func = 1 /\ last_event.call = 0
    /\ calls[1].entered = 4
    /\ Len(LinesOf(trace_log \o instr_data, 1)) = 4

\* the calls of f entered whose exit has arrived, f never nested in itself
Complete(f) == calls[f].entered - (IF InProgress(f) THEN 1 ELSE 0)

\* C34: of a function sampled with a ratio N > 1 whose calls were never
\* nested in one another the recorded enters are those of the calls 1, N+1,
\* 2N+1, ... entered so far, the recorded exits those of the same calls
\* among the M complete ones, and the collector holds ceil(M/N) exit records
\* and, when no call is in progress, ceil(M/N) enter records of it.
C34_EveryNthFromFirst ==
    \A f \in Funcs :
        (pc = "running" /\ exit_code = Running /\ Sampled(config, f)
            /\ config.func_config[f].sample_ratio > 1 /\ ~calls[f].nested) =>
            LET N == config.func_config[f].sample_ratio
                M == Complete(f)
                lines == LinesOf(trace_log \o instr_data, f)
                Nth(m) == {k \in 1..m : k % N = 1 % N}
            IN /\ AcceptedCalls(f, "i") = Nth(calls[f].entered)
               /\ AcceptedCalls(f, "o") = Nth(M)
               /\ RecordsOf(lines, f, "o") = (M + N - 1) \div N
               /\ RecordsOf(lines, f, "i") = (calls[f].entered + N - 1) \div N
               /\ Len(lines) = Cardinality(Nth(calls[f].entered)) + Cardinality(Nth(M))

\* three complete calls of function 1 sampled with ratio 2, calls of
\* function 2 among them: the calls 1 and 3 are the recorded ones
C34_Witness ==
    /\ pc = "running" /\ Sampled(config, 1) /\ ~calls[1].nested
    /\ config.func_config[1].sample_ratio = 2
    /\ calls[1].entered = 3 /\ ~InProgress(1)
    /\ calls[2].entered = 1
    /\ AcceptedCalls(1, "o") = {1, 3}

\* C36: for a sampled function never nested in itself sample_current stays
\* within 0..sample_ratio, and equals sample_ratio exactly while a recorded
\* call of the function is in progress.
C36_CounterWithinRatio ==
    \A f \in Funcs :
        (pc = "running" /\ exit_code = Running /\ Sampled(config, f) /\ ~calls[f].nested) =>
            /\ config.func_config[f].sample_current >= 0
            /\ config.func_config[f].sample_current <= config.func_config[f].sample_ratio
            /\ (config.func_config[f].sample_current = config.func_config[f].sample_ratio)
                  <=> \E i \in DOMAIN call_stack :
                          call_stack[i].func = f /\ call_stack[i].recorded

\* the fourth call of function 1, sampled with ratio 3, is in progress and
\* recorded: the counter went 2, 3, 0, 1, 2 and stands at 3
C36_Witness ==
    /\ pc = "running" /\ Sampled(config, 1) /\ ~calls[1].nested
    /\ config.func_config[1].sample_ratio = 3
    /\ config.func_config[1].sample_current = 3
    /\ calls[1].entered = 4
    /\ InProgress(1)

----------------------------------------------------------------------------
(* Runs in which the size channel is used as the injected profiling uses   *)
(* it: no function is filtered, the structure is registered as injected,   *)
(* so that a record carries the frame of the function that announces the   *)
(* size, and every instrumented call announces the size once at most.      *)
(* The entry of a call on the call stack remembers the size it announced.  *)

OwnInputs ==
    {[sections |-> ss, cut |-> Whole] : ss \in {
        <<>>,
        <<SecSampling(<<<<1, 2>>>>)>>,
        <<SecOutput(TRUE), SecSampling(<<<<1, 2>>, <<2, 3>>>>)>> }}

InitOwn == InitWith(OwnInputs)

\* _profapi_using_size_value(list, size) called by the function at the top of
\* the call stack, which has not called it before
OwnUsing ==
    \E size \in Sizes :
        /\ pc = "running" /\ exit_code = Running
        /\ call_stack # <<>> /\ call_stack[Len(call_stack)].size = 0
        /\ StructAddr \in DOMAIN struct_size_map
        /\ struct_size_map[StructAddr].is_injected
        /\ \E t \in {_profapi_using_size_value(Cur, StructAddr, size,
                        FrameAddr(Len(call_stack)), FrameAddr(Len(call_stack) + 1))} :
              /\ Install(t)
              /\ last_event' = [NoEvent EXCEPT !.kind = "using", !.size = size,
                                               !.touched = Touched(t, 0)]
        /\ call_stack' = [call_stack EXCEPT ![Len(call_stack)].size = size]
        /\ UNCHANGED <<config_file, memory, input, ret_code, parse_log, pc,
                       now, accepted, calls, twin>>

\* _profapi_register_size_address(list, is_injected, &list->size)
OwnRegisterAddress ==
    \E is_injected \in BOOLEAN :
        /\ pc = "running" /\ exit_code = Running
        /\ StructAddr \notin DOMAIN struct_size_map
        /\ \E t \in {_profapi_register_size_address(Cur, StructAddr, is_injected,
                                                    SizeField(StructAddr))} :
              Install(t)
        /\ UNCHANGED <<config_file, memory, input, ret_code, parse_log, pc, call_stack,
                       now, accepted, calls, last_event, twin>>

\* _profapi_using_size_address(list) called by the function at the top of the
\* call stack, which has not announced a size before; the structure may have
\* been registered with a value, and the read of its size is then undefined
OwnUsingAddress ==
    \E undefined \in UndefinedReads :
        /\ pc = "running" /\ exit_code = Running
        /\ call_stack # <<>> /\ call_stack[Len(call_stack)].size = 0
        /\ StructAddr \in DOMAIN struct_size_map
        /\ struct_size_map[StructAddr].is_injected
        /\ \E t \in {_profapi_using_size_address(Cur, StructAddr,
                        FrameAddr(Len(call_stack)), FrameAddr(Len(call_stack) + 1),
                        memory, undefined)} :
              /\ Install(t)
              /\ last_event' = [NoEvent EXCEPT !.kind = "using",
                                               !.touched = Touched(t, 0)]
              /\ call_stack' = [call_stack EXCEPT ![Len(call_stack)].size =
                                    IF t.exit_code = Running
                                    THEN t.size_stack[Len(t.size_stack)].actual_size
                                    ELSE 0]
        /\ UNCHANGED <<config_file, memory, input, ret_code, parse_log, pc,
                       now, accepted, calls, twin>>

NextOwn ==
    \/ Construct
    \/ UseEnter
    \/ Exit
    \/ UseRegister
    \/ OwnRegisterAddress
    \/ OwnUsing
    \/ OwnUsingAddress

SpecOwn == InitOwn /\ [][NextOwn]_vars

\* C39: in these runs the size stack holds exactly the sizes announced by the
\* calls in progress, in the order of the calls, each under the frame of its
\* call, so it is empty when no call is in progress; and a recorded exit
\* is a line with the size its own call announced, 0 if it announced none.
C39_SizeOfOwnCall ==
    LET announced == SelectSeq(call_stack, LAMBDA e : e.size # 0)
    IN /\ call_stack = <<>> => size_stack = <<>>
       /\ Len(size_stack) = Len(announced)
       /\ \A i \in DOMAIN size_stack :
             i <= Len(announced) =>
                size_stack[i] = Size_stack_record(announced[i].frame, announced[i].size)
       /\ (last_event.kind = "exit" /\ last_event.did = "recorded") =>
             /\ accepted[Len(accepted)].rec.action = "o"
             /\ accepted[Len(accepted)].rec.function_address = last_event.func
             /\ accepted[Len(accepted)].rec.struct_size = last_event.size
             /\ (trace_log \o instr_data)[Len(accepted)] = accepted[Len(accepted)].rec
       /\ \A i \in DOMAIN accepted :
             accepted[i].rec.action = "i" => accepted[i].rec.struct_size = 0

\* a call that announced size 2 returns inside a call that announced size 1:
\* its exit line carries 2 and the record of the outer call is on top
C39_Witness ==
    /\ last_event.kind = "exit" /\ last_event.did = "recorded" /\ last_event.size = 2
    /\ accepted[Len(accepted)].rec.struct_size = 2
    /\ Len(call_stack) = 1 /\ call_stack[1].size = 1
    /\ size_stack = <<Size_stack_record(call_stack[1].frame, 1)>>

----------------------------------------------------------------------------
(* Two processes in lockstep that differ in internal_direct_output only:   *)
(* the collector and a twin with the opposite value, the same policy       *)
(* table, the same calls, the same size announcements, the same shutdown.  *)

ModeInputs ==
    {[sections |-> ss, cut |-> Whole] : ss \in {
        <<>>,
        <<SecOutput(TRUE), SecFilter(<<1>>)>>,
        <<SecSampling(<<<<1, 2>>>>)>> }}

InitMode == InitWith(ModeInputs)

\* instrumented calls entered in one of these runs
MaxModeCalls == 2

ModeConstruct ==
    /\ ConstructEv(TRUE)
    /\ twin' = Trace_context_wrapper_ctor(FreshProcess,
                  ConfigText(OtherMode(input.sections)), TRUE)

ModeEnter == TotalCalls < MaxModeCalls /\ TwinEnter

ModeDestruct ==
    /\ DestructEv
    /\ twin' = Trace_context_wrapper_dtor(twin)

NextMode ==
    \/ ModeConstruct
    \/ ModeEnter
    \/ TwinExit
    \/ TwinRegister
    \/ TwinUsing
    \/ ModeDestruct

SpecMode == InitMode /\ [][NextMode]_vars

\* the lines of the records: direction, function, structure size
Content(records) ==
    [i \in DOMAIN records |->
        [action |-> records[i].action,
         function_address |-> records[i].function_address,
         struct_size |-> records[i].struct_size]]

\* C37: the two processes have the same policy table and opposite output
\* modes; after the destructor the trace logs of both hold the same lines
\* (direction, function, structure size) in the same order, and all along
\* the log of the direct one holds the lines that the buffered one has in
\* its log and its buffer.
C37_SameContentBothModes ==
    pc \in {"running", "done"} =>
        LET buffered == IF config.use_direct_file_output THEN twin ELSE Cur
            direct == IF config.use_direct_file_output THEN Cur ELSE twin
        IN /\ config.use_direct_file_output # twin.config.use_direct_file_output
           /\ DOMAIN config.func_config = DOMAIN twin.config.func_config
           /\ \A f \in DOMAIN config.func_config :
                 /\ config.func_config[f].is_filtered = twin.config.func_config[f].is_filtered
                 /\ config.func_config[f].is_sampled = twin.config.func_config[f].is_sampled
                 /\ config.func_config[f].sample_ratio = twin.config.func_config[f].sample_ratio
           /\ exit_code = Running /\ twin.exit_code = Running
           /\ direct.instr_data = <<>>
           /\ Content(direct.trace_log) = Content(buffered.trace_log \o buffered.instr_data)
           /\ pc = "done" =>
                 /\ buffered.instr_data = <<>>
                 /\ Content(trace_log) = Content(twin.trace_log)
                 /\ Content(trace_log) = Content([i \in DOMAIN accepted |-> accepted[i].rec])

\* after the destructor both logs hold four lines, one with a structure
\* size; the buffered process had dumped its buffer at the cap before
C37_Witness ==
    /\ pc = "done" /\ exit_code = Running
    /\ Len(trace_log) = 4 /\ Len(twin.trace_log) = 4
    /\ \E i \in DOMAIN trace_log : trace_log[i].struct_size # 0
    /\ flushes + twin.flushed > 1

====
